---- MODULE Spec2Model ----
(***************************************************************************)
(* Tetris-time core: the tetromino catalog, the digit masks, the Grid, the *)
(* seeded backtracking tiling solver (tileGrid / tileDigit) and the        *)
(* gravity sequencer (sequencePieces), as one state machine.               *)
(*                                                                         *)
(* Cells are <<row, col>> pairs, 0-based as in the source.  A piece        *)
(* reference held by a grid cell is modelled by the piece's numeric id     *)
(* (the N of "piece-N"); 0 stands for null.                                *)
(***************************************************************************)
EXTENDS Integers, Sequences, FiniteSets, TLC

(***************************************************************************)
(* Bounds of the model (not program constants).                            *)
(***************************************************************************)
\* numeric seeds 0..MaxSeed are tried
MaxSeed == 2
\* a caller-supplied maxAttempts small enough for the search to hit it
SmallBudget == 40
\* placements made on other Grid instances around the tiling calls
MaxOtherPlacements == 1
\* tileGrid calls made with the same arguments in one behaviour
NumCalls == 2
\* sequencePieces is given every tiling of the 4-row grids this wide or less
MaxTilingCols == 5
\* identities handed out while a caller works on its own Grid
MaxPieceIds == 3
\* tileDigit, tileTime and tileTimeGrid are called with seeds 0..MaxTimeSeed
MaxTimeSeed == 1
\* a maxAttempts that the gap regions tile within and the digits do not
MidBudget == 400
\* the estimator is given the sequences of every tiling of the 4-row grids
\* this wide or less
MaxEstimateCols == 3
\* caller-built TileResults hold two pieces in a 4-row grid this wide
MaxOverlayCols == 3

(***************************************************************************)
(* Program constants.                                                      *)
(***************************************************************************)
DEFAULT_MAX_ATTEMPTS == 1000000
DIGIT_ROWS == 10
DIGIT_COLS == 6
TIME_DIGIT_GAP_COLS == 2
TIME_COLON_GAP_COLS == 4

(***************************************************************************)
(* 32-bit words.  TLC integers are 32-bit signed, so an unsigned 32-bit    *)
(* word w is kept as <<hi, lo>> with w = hi * 2^16 + lo.                   *)
(***************************************************************************)
W16 == 65536

Add32(a, b) ==
  LET lo == a[2] + b[2]
  IN  <<(a[1] + b[1] + (lo \div W16)) % W16, lo % W16>>

\* exclusive or of two 4-bit values
XorNib == [x \in 0..15, y \in 0..15 |->
            LET b(v, k) == (v \div k) % 2
                x1(k) == (b(x, k) + b(y, k)) % 2
            IN  x1(1) + 2 * x1(2) + 4 * x1(4) + 8 * x1(8)]

Xor16(x, y) ==
    XorNib[x % 16, y % 16]
  + 16 * XorNib[(x \div 16) % 16, (y \div 16) % 16]
  + 256 * XorNib[(x \div 256) % 16, (y \div 256) % 16]
  + 4096 * XorNib[(x \div 4096) % 16, (y \div 4096) % 16]

Xor32(a, b) == <<Xor16(a[1], b[1]), Xor16(a[2], b[2])>>

Pow2(k) == IF k = 0 THEN 1 ELSE IF k = 7 THEN 128 ELSE IF k = 14 THEN 16384
           ELSE IF k = 15 THEN 32768 ELSE IF k = 1 THEN 2 ELSE IF k = 2 THEN 4
           ELSE IF k = 9 THEN 512 ELSE 0

\* t >>> k for 0 < k < 16
Shr32(a, k) ==
  <<a[1] \div Pow2(k), (a[1] % Pow2(k)) * Pow2(16 - k) + (a[2] \div Pow2(k))>>

\* (x * y) mod 2^16 for 16-bit x, y, without leaving 31 bits
MulLo16(x, y) ==
  ((((x % 256) * y) % W16) + ((((x \div 256) * y) % 256) * 256)) % W16

\* Math.imul: the low 32 bits of the product
Imul(a, b) ==
  LET p  == (a[2] % 256) * b[2]
      q  == (a[2] \div 256) * b[2]
      s  == p + (q % 256) * 256
      lo == s % W16
      c  == (s \div W16) + (q \div 256)
      hi == (c + MulLo16(a[1], b[2]) + MulLo16(a[2], b[1])) % W16
  IN  <<hi, lo>>

\* t | 1
Or1(a) == <<a[1], IF a[2] % 2 = 0 THEN a[2] + 1 ELSE a[2]>>

\* t | 61   (61 = 111101b: only bit 1 of the low six bits survives from t)
Or61(a) == <<a[1], (a[2] - (a[2] % 64)) + 61 + 2 * ((a[2] \div 2) % 2)>>

MULBERRY_INC == <<27947, 31221>>   \* 0x6d2b79f5

(***************************************************************************)
(* SeededRandom (Mulberry32).  The generator's state only enters the       *)
(* computation through ToInt32, so it is kept modulo 2^32.                 *)
(***************************************************************************)
\* SeededRandom.next: <<new state, the 32-bit numerator u of u / 2^32>>
RandomNext(state) ==
  LET s1 == Add32(state, MULBERRY_INC)
      t1 == Imul(Xor32(s1, Shr32(s1, 15)), Or1(s1))
      t2 == Xor32(t1, Add32(t1, Imul(Xor32(t1, Shr32(t1, 7)), Or61(t1))))
  IN  <<s1, Xor32(t2, Shr32(t2, 14))>>

\* Math.floor((u / 2^32) * n) for 1 <= n <= 28
FloorScale(u, n) == (u[1] * n + ((u[2] * n) \div W16)) \div W16

Swap(arr, i, j) == [arr EXCEPT ![i] = arr[j], ![j] = arr[i]]

RECURSIVE ShuffleFrom(_, _, _)
\* the Fisher-Yates loop of SeededRandom.shuffle, 1-based: i runs from
\* Len(arr) down to 2 (the source's i = length-1 .. 1)
ShuffleFrom(arr, i, state) ==
  IF i < 2 THEN <<arr, state>>
  ELSE LET nx == RandomNext(state)
           j  == FloorScale(nx[2], i) + 1
       IN  ShuffleFrom(Swap(arr, i, j), i - 1, nx[1])

\* SeededRandom.shuffle: <<shuffled copy, new generator state>>
Shuffle(arr, state) == ShuffleFrom(arr, Len(arr), state)

RECURSIVE HashFrom(_, _, _)
HashFrom(codes, i, hash) ==
  IF i > Len(codes) THEN hash
  ELSE HashFrom(codes, i + 1,
                Add32(Imul(hash, <<0, 31>>), <<0, codes[i]>>))

\* seedToNumber for a caller-supplied seed: a number is taken as it is, a
\* string (a sequence of char codes) is hashed with hash*31 + code mod 2^32
\* (a seed is a number, NumberSeed(n), or a string, StringSeed(char codes))
NumberSeed(n) == [type |-> "number", num |-> n, codes |-> <<>>]
StringSeed(codes) == [type |-> "string", num |-> 0, codes |-> codes]
SeedToNumber(seed) ==
  IF seed.type = "number" THEN <<(seed.num \div W16) % W16, seed.num % W16>>
  ELSE HashFrom(seed.codes, 1, <<0, 0>>)

(***************************************************************************)
(* Tetromino catalog.                                                      *)
(***************************************************************************)
TETROMINO_TYPES == <<"I", "O", "T", "S", "Z", "J", "L">>

\* a catalog that lists four rotation states for S, the third and fourth
\* repeating the first and second
CatalogWithFourSStates == [
  I |-> << << <<0,0>>, <<0,1>>, <<0,2>>, <<0,3>> >>,
           << <<0,0>>, <<1,0>>, <<2,0>>, <<3,0>> >> >>,
  O |-> << << <<0,0>>, <<0,1>>, <<1,0>>, <<1,1>> >> >>,
  T |-> << << <<0,0>>, <<0,1>>, <<0,2>>, <<1,1>> >>,
           << <<0,1>>, <<1,0>>, <<1,1>>, <<2,1>> >>,
           << <<0,1>>, <<1,0>>, <<1,1>>, <<1,2>> >>,
           << <<0,0>>, <<1,0>>, <<1,1>>, <<2,0>> >> >>,
  S |-> << << <<0,1>>, <<0,2>>, <<1,0>>, <<1,1>> >>,
           << <<0,0>>, <<1,0>>, <<1,1>>, <<2,1>> >>,
           << <<0,1>>, <<0,2>>, <<1,0>>, <<1,1>> >>,
           << <<0,0>>, <<1,0>>, <<1,1>>, <<2,1>> >> >>,
  Z |-> << << <<0,0>>, <<0,1>>, <<1,1>>, <<1,2>> >>,
           << <<0,1>>, <<1,0>>, <<1,1>>, <<2,0>> >> >>,
  J |-> << << <<0,0>>, <<1,0>>, <<1,1>>, <<1,2>> >>,
           << <<0,0>>, <<0,1>>, <<1,0>>, <<2,0>> >>,
           << <<0,0>>, <<0,1>>, <<0,2>>, <<1,2>> >>,
           << <<0,1>>, <<1,1>>, <<2,0>>, <<2,1>> >> >>,
  L |-> << << <<0,2>>, <<1,0>>, <<1,1>>, <<1,2>> >>,
           << <<0,0>>, <<1,0>>, <<2,0>>, <<2,1>> >>,
           << <<0,0>>, <<0,1>>, <<0,2>>, <<1,0>> >>,
           << <<0,0>>, <<0,1>>, <<1,1>>, <<2,1>> >> >> ]

TETROMINOES == [
  I |-> << << <<0,0>>, <<0,1>>, <<0,2>>, <<0,3>> >>,
           << <<0,0>>, <<1,0>>, <<2,0>>, <<3,0>> >> >>,
  O |-> << << <<0,0>>, <<0,1>>, <<1,0>>, <<1,1>> >> >>,
  T |-> << << <<0,0>>, <<0,1>>, <<0,2>>, <<1,1>> >>,
           << <<0,1>>, <<1,0>>, <<1,1>>, <<2,1>> >>,
           << <<0,1>>, <<1,0>>, <<1,1>>, <<1,2>> >>,
           << <<0,0>>, <<1,0>>, <<1,1>>, <<2,0>> >> >>,
  S |-> << << <<0,1>>, <<0,2>>, <<1,0>>, <<1,1>> >>,
           << <<0,0>>, <<1,0>>, <<1,1>>, <<2,1>> >> >>,
  Z |-> << << <<0,0>>, <<0,1>>, <<1,1>>, <<1,2>> >>,
           << <<0,1>>, <<1,0>>, <<1,1>>, <<2,0>> >> >>,
  J |-> << << <<0,0>>, <<1,0>>, <<1,1>>, <<1,2>> >>,
           << <<0,0>>, <<0,1>>, <<1,0>>, <<2,0>> >>,
           << <<0,0>>, <<0,1>>, <<0,2>>, <<1,2>> >>,
           << <<0,1>>, <<1,1>>, <<2,0>>, <<2,1>> >> >>,
  L |-> << << <<0,2>>, <<1,0>>, <<1,1>>, <<1,2>> >>,
           << <<0,0>>, <<1,0>>, <<2,0>>, <<2,1>> >>,
           << <<0,0>>, <<0,1>>, <<0,2>>, <<1,0>> >>,
           << <<0,0>>, <<0,1>>, <<1,1>>, <<2,1>> >> >> ]

\* rotation r (0-based, as in the source) of a tetromino type
Rotation(type, r) == TETROMINOES[type][r + 1]

\* getAbsoluteCells: anchor plus each relative offset, in catalog order
GetAbsoluteCells(type, rotationIndex, anchor) ==
  LET rot == Rotation(type, rotationIndex)
  IN  [k \in 1..Len(rot) |-> <<anchor[1] + rot[k][1], anchor[2] + rot[k][2]>>]


(***************************************************************************)
(* Small helpers.                                                          *)
(***************************************************************************)
SetMax(S) == CHOOSE x \in S : \A y \in S : y <= x
SetMin(S) == CHOOSE x \in S : \A y \in S : x <= y
Range(f) == {f[k] : k \in DOMAIN f}
\* the cells of a piece as a set
CellSet(piece) == Range(piece.cells)
\* JavaScript's "no cell" (null)
NoCell == <<-1, -1>>

(***************************************************************************)
(* Digit masks.  parseMask turns each character into c === 'X'.            *)
(***************************************************************************)
\* a parseMask that does not trim its rows: the indentation in front of a
\* row becomes one more (unlit) cell
ParseMaskUntrimmed(visual) ==
  [r \in 1..Len(visual) |->
     <<FALSE>> \o [c \in 1..Len(visual[r]) |-> visual[r][c] = "X"]]

ParseMask(visual) ==
  [r \in 1..Len(visual) |-> [c \in 1..Len(visual[r]) |-> visual[r][c] = "X"]]

RowFull == <<"X", "X", "X", "X", "X", "X">>
RowRight == <<".", ".", ".", ".", "X", "X">>
RowLeft == <<"X", "X", ".", ".", ".", ".">>
RowSides == <<"X", "X", ".", ".", "X", "X">>

DIGIT_PATTERNS == <<
  \* 0
  ParseMask(<<RowFull, RowFull, RowSides, RowSides, RowSides, RowSides,
              RowFull, RowFull, RowFull, RowFull>>),
  \* 1
  ParseMask(<<RowRight, RowRight, RowRight, RowRight, RowRight, RowRight,
              RowRight, RowRight, RowRight, RowRight>>),
  \* 2
  ParseMask(<<RowFull, RowFull, RowRight, RowRight, RowFull, RowFull,
              RowLeft, RowLeft, RowFull, RowFull>>),
  \* 3
  ParseMask(<<RowFull, RowFull, RowRight, RowRight, RowFull, RowFull,
              RowRight, RowRight, RowFull, RowFull>>),
  \* 4
  ParseMask(<<RowSides, RowSides, RowSides, RowSides, RowFull, RowFull,
              RowRight, RowRight, RowRight, RowRight>>),
  \* 5
  ParseMask(<<RowFull, RowFull, RowLeft, RowLeft, RowFull, RowFull,
              RowRight, RowRight, RowFull, RowFull>>),
  \* 6
  ParseMask(<<RowFull, RowFull, RowLeft, RowLeft, RowFull, RowFull,
              RowSides, RowSides, RowFull, RowFull>>),
  \* 7
  ParseMask(<<RowFull, RowFull, RowRight, RowRight, RowRight, RowRight,
              RowRight, RowRight, RowRight, RowRight>>),
  \* 8
  ParseMask(<<RowFull, RowFull, RowSides, RowSides, RowFull, RowFull,
              RowSides, RowSides, RowFull, RowFull>>),
  \* 9
  ParseMask(<<RowFull, RowFull, RowSides, RowSides, RowFull, RowFull,
              RowRight, RowRight, RowFull, RowFull>>) >>

\* DIGIT_PATTERNS[digit] for digit 0..9
DigitPattern(digit) == DIGIT_PATTERNS[digit + 1]

RECURSIVE FlatFrom(_, _)
\* mask.flat(): the rows from the r-th on, one after the other
FlatFrom(mask, r) ==
  IF r > Len(mask) THEN <<>> ELSE mask[r] \o FlatFrom(mask, r + 1)

\* countLitCells: mask.flat().filter(Boolean).length
CountLitCells(mask) == Len(SelectSeq(FlatFrom(mask, 1), LAMBDA c : c))

\* countUnlitCells: mask.flat().filter((c) => !c).length
CountUnlitCells(mask) == Len(SelectSeq(FlatFrom(mask, 1), LAMBDA c : ~c))

(***************************************************************************)
(* Grid.  A Grid instance is a record; cells and mask are arrays of rows.  *)
(***************************************************************************)
\* new Grid(rows, cols, mask)
NewGrid(rows, cols, mask) ==
  [rows |-> rows, cols |-> cols,
   cells |-> [r \in 1..rows |-> [c \in 1..cols |-> 0]],
   mask |-> mask,
   placedPieces |-> <<>>]

\* this.cells[row][col] / this.mask[row][col] with 0-based row, col
CellAt(cells, row, col) == cells[row + 1][col + 1]

\* Grid.canPlace without the overlap check
CanPlaceNoOverlapCheck(g, type, rotationIndex, anchor) ==
  LET cells == GetAbsoluteCells(type, rotationIndex, anchor)
  IN  /\ \A k \in 1..Len(cells) :
           /\ cells[k][1] >= 0 /\ cells[k][1] < g.rows
           /\ cells[k][2] >= 0 /\ cells[k][2] < g.cols
      /\ \A k \in 1..Len(cells) :
           CellAt(g.mask, cells[k][1], cells[k][2])
             = CellAt(g.mask, cells[1][1], cells[1][2])

\* Grid.canPlace without the mask check
CanPlaceNoMaskCheck(g, type, rotationIndex, anchor) ==
  LET cells == GetAbsoluteCells(type, rotationIndex, anchor)
  IN  /\ \A k \in 1..Len(cells) :
           /\ cells[k][1] >= 0 /\ cells[k][1] < g.rows
           /\ cells[k][2] >= 0 /\ cells[k][2] < g.cols
      /\ \A k \in 1..Len(cells) : CellAt(g.cells, cells[k][1], cells[k][2]) = 0

\* Grid.canPlace
CanPlace(g, type, rotationIndex, anchor) ==
  LET cells == GetAbsoluteCells(type, rotationIndex, anchor)
  IN  \* bounds
      /\ \A k \in 1..Len(cells) :
           /\ cells[k][1] >= 0 /\ cells[k][1] < g.rows
           /\ cells[k][2] >= 0 /\ cells[k][2] < g.cols
      \* no overlap
      /\ \A k \in 1..Len(cells) : CellAt(g.cells, cells[k][1], cells[k][2]) = 0
      \* one mask value
      /\ \A k \in 1..Len(cells) :
           CellAt(g.mask, cells[k][1], cells[k][2])
             = CellAt(g.mask, cells[1][1], cells[1][2])

RECURSIVE MarkCells(_, _, _, _)
\* for (const cell of cells) this.cells[cell.row][cell.col] = value
MarkCells(cells, list, k, value) ==
  IF k > Len(list) THEN cells
  ELSE MarkCells([cells EXCEPT ![list[k][1] + 1][list[k][2] + 1] = value],
                 list, k + 1, value)

\* the PlacedTetromino built by Grid.place, with identity id
NewPiece(g, id, type, rotationIndex, anchor) ==
  LET cells == GetAbsoluteCells(type, rotationIndex, anchor)
  IN  [id |-> id, type |-> type, rotationIndex |-> rotationIndex,
       anchor |-> anchor, cells |-> cells,
       isLit |-> CellAt(g.mask, cells[1][1], cells[1][2])]

\* Grid.place, when canPlace holds: the grid afterwards (id is the value
\* generatePieceId returned).  placedPieces is a Map keyed by identity:
\* set() adds an entry at the end, or replaces the entry of that identity
Place(g, id, type, rotationIndex, anchor) ==
  LET piece == NewPiece(g, id, type, rotationIndex, anchor)
  IN  [g EXCEPT !.cells = MarkCells(g.cells, piece.cells, 1, id),
                !.placedPieces =
                   IF \E k \in 1..Len(@) : @[k].id = id
                   THEN [k \in 1..Len(@) |->
                           IF @[k].id = id THEN piece ELSE @[k]]
                   ELSE Append(@, piece)]

\* this.placedPieces.has(pieceId)
HasPiece(g, pieceId) ==
  \E k \in 1..Len(g.placedPieces) : g.placedPieces[k].id = pieceId

\* this.placedPieces.get(pieceId)
GetPiece(g, pieceId) ==
  g.placedPieces[CHOOSE k \in 1..Len(g.placedPieces) :
                   g.placedPieces[k].id = pieceId]

\* a Grid.remove that deregisters the piece and leaves its cells occupied
RemoveRegistrationOnly(g, pieceId) ==
  [g EXCEPT !.placedPieces = SelectSeq(g.placedPieces,
                                       LAMBDA p : p.id # pieceId)]

\* Grid.remove, when the piece is registered: the grid afterwards
Remove(g, pieceId) ==
  LET piece == GetPiece(g, pieceId)
  IN  [g EXCEPT !.cells = MarkCells(g.cells, piece.cells, 1, 0),
                !.placedPieces = SelectSeq(g.placedPieces,
                                           LAMBDA p : p.id # pieceId)]

RECURSIVE ScanEmptyColumnMajor(_, _, _)
\* a findFirstEmpty scan that goes down the columns, left to right
ScanEmptyColumnMajor(g, row, col) ==
  IF col >= g.cols THEN NoCell
  ELSE IF row >= g.rows THEN ScanEmptyColumnMajor(g, 0, col + 1)
  ELSE IF CellAt(g.cells, row, col) = 0 THEN <<row, col>>
  ELSE ScanEmptyColumnMajor(g, row + 1, col)

RECURSIVE ScanEmpty(_, _, _)
\* the row-major scan of Grid.findFirstEmpty from (row, col) on
ScanEmpty(g, row, col) ==
  IF row >= g.rows THEN NoCell
  ELSE IF col >= g.cols THEN ScanEmpty(g, row + 1, 0)
  ELSE IF CellAt(g.cells, row, col) = 0 THEN <<row, col>>
  ELSE ScanEmpty(g, row, col + 1)

\* Grid.findFirstEmpty (NoCell for null)
FindFirstEmpty(g) == ScanEmpty(g, 0, 0)

\* Grid.isFull
IsFull(g) == FindFirstEmpty(g) = NoCell

\* Grid.getPlacedPieces: the Map's values in insertion order
GetPlacedPieces(g) == g.placedPieces

\* Grid.getCells: a copy of the rows
GetCells(g) == g.cells

\* generatePieceId: ++pieceIdCounter
GeneratePieceId(counter) == counter + 1

\* a resetPieceIdCounter that leaves the counter alone
KeepPieceIdCounter(counter) == counter

\* resetPieceIdCounter
ResetPieceIdCounter(counter) == 0


(***************************************************************************)
(* Solver helpers.                                                         *)
(***************************************************************************)
RECURSIVE PlacementsFrom(_, _)
\* getAllPlacements: the outer loop over TETROMINO_TYPES from index t on,
\* the inner loop over the rotation indexes of each type
PlacementsFrom(t, acc) ==
  IF t > Len(TETROMINO_TYPES) THEN acc
  ELSE LET type == TETROMINO_TYPES[t]
           rots == [r \in 1..Len(TETROMINOES[type]) |->
                      [tetrominoType |-> type, rotationIndex |-> r - 1]]
       IN  PlacementsFrom(t + 1, acc \o rots)

\* a getAllPlacements that forgets the rotation loop: rotation 0 of each type
FirstRotationsOnly ==
  [t \in 1..Len(TETROMINO_TYPES) |->
     [tetrominoType |-> TETROMINO_TYPES[t], rotationIndex |-> 0]]

\* getAllPlacements
GetAllPlacements == PlacementsFrom(1, <<>>)

\* getAnchorsToCoverCell: one anchor per relative cell of the rotation
GetAnchorsToCoverCell(type, rotationIndex, targetCell) ==
  LET rot == Rotation(type, rotationIndex)
  IN  [k \in 1..Len(rot) |->
         <<targetCell[1] - rot[k][1], targetCell[2] - rot[k][2]>>]

\* a default budget a thousand times too small
DefaultBudgetTooSmall(option) ==
  IF option = {} THEN DEFAULT_MAX_ATTEMPTS \div 1000
  ELSE CHOOSE n \in option : TRUE

\* options?.maxAttempts ?? DEFAULT_MAX_ATTEMPTS (an absent option is {})
MaxAttemptsOf(option) ==
  IF option = {} THEN DEFAULT_MAX_ATTEMPTS ELSE CHOOSE n \in option : TRUE

(***************************************************************************)
(* JavaScript numbers, as far as the argument checks tell them apart: a    *)
(* finite number is kept as twice its value (so that halves are exact),    *)
(* and NaN, Infinity and -Infinity are values of their own.                *)
(***************************************************************************)
JsInt(n) == [kind |-> "finite", twice |-> 2 * n]
\* n + 0.5
JsHalfAfter(n) == [kind |-> "finite", twice |-> 2 * n + 1]
JsNaN == [kind |-> "NaN", twice |-> 0]
JsInfinity == [kind |-> "Infinity", twice |-> 0]
JsNegInfinity == [kind |-> "-Infinity", twice |-> 0]

\* x < n for an integer literal n: false for NaN
JsLess(x, n) ==
  \/ x.kind = "-Infinity"
  \/ x.kind = "finite" /\ x.twice < 2 * n

\* x > n for an integer literal n: false for NaN
JsGreater(x, n) ==
  \/ x.kind = "Infinity"
  \/ x.kind = "finite" /\ x.twice > 2 * n

\* a Number.isInteger that only asks for a finite number
IsFiniteNumber(x) == x.kind = "finite"

\* Number.isInteger
IsInteger(x) == x.kind = "finite" /\ x.twice % 2 = 0

\* the value of a number that passed the checks (a non-negative integer)
IntegerOf(x) == x.twice \div 2

\* digit < 0 || digit > 9 || !Number.isInteger(digit)
InvalidDigit(digit) ==
  JsLess(digit, 0) \/ JsGreater(digit, 9) \/ ~IsInteger(digit)

\* hours < 0 || hours > 23 || !Number.isInteger(hours)
InvalidHours(hours) ==
  JsLess(hours, 0) \/ JsGreater(hours, 23) \/ ~IsInteger(hours)

\* minutes < 0 || minutes > 59 || !Number.isInteger(minutes)
InvalidMinutes(minutes) ==
  JsLess(minutes, 0) \/ JsGreater(minutes, 59) \/ ~IsInteger(minutes)

(***************************************************************************)
(* State.                                                                  *)
(***************************************************************************)
VARIABLES
  pc,               \* where the caller is: idle, solve, tiled, seq, done;
                    \* grid, called when it works on a Grid of its own
  args,             \* the arguments of the tiling call
  callNo,           \* how many tiling calls have been started, plus one
  otherPlacements,  \* placements made so far on other Grid instances
  pieceIdCounter,   \* grid.ts: the module-level identity counter
  grid,             \* tileGrid: the Grid being filled
  random,           \* tileGrid: the SeededRandom's state
  state,            \* tileGrid: the SolverState
  stack,            \* the frames of the active backtrack invocations
  ctl,              \* call / loop / true / false: what the top invocation does
  result,           \* the TileResult returned by the last tiling call
  firstResult,      \* the TileResult returned by the first tiling call
  placedCells,      \* sequencePieces: cells of the pieces sequenced so far
  remainingPieces,  \* sequencePieces: ids not yet sequenced, insertion order
  sequence,         \* sequencePieces: the sequence built so far
  seqResult,        \* the SequenceResult returned
  usedFallback,     \* whether the greedy loop stalled and the fallback ran
  lastOp,           \* the last operation a caller made on its own Grid
  before,           \* that Grid and the identity counter before lastOp
  timeCall,         \* the tileDigit / tileTime / tileTimeGrid call being made
  parts,            \* that call's TileResults so far (d0, g0, d1, ...)
  timeResult,       \* the TileResult tileTimeGrid returned
  estimates,        \* the estimateAnimationDurationMs calls made on seqResult
  clock             \* the TetrisClock of the browser page and its display cycles

solverVars == <<pieceIdCounter, grid, random, state, stack, ctl>>
seqVars == <<placedCells, remainingPieces, sequence, seqResult, usedFallback>>
timeVars == <<timeCall, parts, timeResult>>
callVars == <<args, callNo, otherPlacements, firstResult, timeVars,
              estimates, clock>>
gridVars == <<lastOp, before>>
vars == <<pc, callVars, solverVars, result, seqVars, gridVars>>

\* no page is open
NoClock == [call |-> "closed"]

NoGrid == NewGrid(0, 0, <<>>)
NoState == [attempts |-> 0, backtracks |-> 0, maxAttempts |-> 0]
NoResult == [success |-> FALSE, pieces |-> <<>>, grid |-> <<>>,
             stats |-> [attempts |-> 0, backtracks |-> 0]]
NoSeqResult == [success |-> FALSE, sequence |-> <<>>, rows |-> 0, cols |-> 0]
\* no Grid operation made yet; the fields are those of any operation: what
\* was called with which arguments, whether it threw, and what it returned
\* (a boolean, a cell, or the id of the piece placed)
NoOp == [op |-> "none", type |-> "", rotationIndex |-> 0, anchor |-> NoCell,
         pieceId |-> 0, threw |-> FALSE, bool |-> FALSE, cell |-> NoCell,
         placed |-> 0]

\* no tileDigit / tileTime / tileTimeGrid call is being made; the fields are
\* those of any such call (an absent option is {})
NoTimeCall == [entry |-> "none", digit |-> JsInt(0), hours |-> JsInt(0),
               minutes |-> JsInt(0), seed |-> NumberSeed(0),
               maxAttempts |-> {}, digitGapCols |-> {}, colonGapCols |-> {}]

(***************************************************************************)
(* Inputs.                                                                 *)
(***************************************************************************)
Lit == TRUE
Unl == FALSE

\* the rectangular grids and masks the tiling calls are made with
GridInputs == {
  \* the empty grid
  [rows |-> 0, cols |-> 0, mask |-> <<>>],
  \* 2 x 4, one region
  [rows |-> 2, cols |-> 4,
   mask |-> << <<Lit, Lit, Lit, Lit>>, <<Lit, Lit, Lit, Lit>> >>],
  \* 3 x 4, one region
  [rows |-> 3, cols |-> 4,
   mask |-> << <<Lit, Lit, Lit, Lit>>, <<Lit, Lit, Lit, Lit>>,
               <<Lit, Lit, Lit, Lit>> >>],
  \* 4 x 4, a lit and an unlit half
  [rows |-> 4, cols |-> 4,
   mask |-> << <<Lit, Lit, Unl, Unl>>, <<Lit, Lit, Unl, Unl>>,
               <<Lit, Lit, Unl, Unl>>, <<Lit, Lit, Unl, Unl>> >>],
  \* 4 x 4, a lit ring around an unlit square
  [rows |-> 4, cols |-> 4,
   mask |-> << <<Lit, Lit, Lit, Lit>>, <<Lit, Unl, Unl, Lit>>,
               <<Lit, Unl, Unl, Lit>>, <<Lit, Lit, Lit, Lit>> >>],
  \* 2 x 2 with a single unlit cell: no tiling
  [rows |-> 2, cols |-> 2, mask |-> << <<Lit, Lit>>, <<Lit, Unl>> >>],
  \* 4 x 4, regions of 8 cells that no tetrominoes tile
  [rows |-> 4, cols |-> 4,
   mask |-> << <<Lit, Lit, Lit, Lit>>, <<Lit, Lit, Unl, Unl>>,
               <<Unl, Unl, Lit, Lit>>, <<Unl, Unl, Unl, Unl>> >>] }

\* the seeds: the numbers 0..MaxSeed and the string "a" (char code 97)
SeedInputs ==
  {NumberSeed(n) : n \in 0..MaxSeed} \cup {StringSeed(<<97>>)}

\* options.maxAttempts: absent, or a small budget
BudgetInputs == {{}, {SmallBudget}}

TileGridArgs ==
  {[entry |-> "tileGrid", digit |-> 0, rows |-> g.rows, cols |-> g.cols,
    mask |-> g.mask, seed |-> s, maxAttempts |-> b] :
     g \in GridInputs, s \in SeedInputs, b \in BudgetInputs}

TileDigitArgsFor(seeds) ==
  {[entry |-> "tileDigit", digit |-> d, rows |-> DIGIT_ROWS,
    cols |-> DIGIT_COLS, mask |-> DigitPattern(d),
    seed |-> NumberSeed(n), maxAttempts |-> {}] :
     d \in 0..9, n \in seeds}

TileDigitArgs == TileDigitArgsFor(0..MaxSeed)

InitWith(inputs) ==
  /\ pc = "idle"
  /\ args \in inputs
  /\ callNo = 1
  /\ otherPlacements = 0
  /\ pieceIdCounter = 0
  /\ grid = NoGrid
  /\ random = <<0, 0>>
  /\ state = NoState
  /\ stack = <<>>
  /\ ctl = "call"
  /\ result = NoResult
  /\ firstResult = NoResult
  /\ placedCells = {}
  /\ remainingPieces = <<>>
  /\ sequence = <<>>
  /\ seqResult = NoSeqResult
  /\ usedFallback = FALSE
  /\ lastOp = NoOp
  /\ before = [grid |-> NoGrid, pieceIdCounter |-> 0]
  /\ timeCall = NoTimeCall
  /\ parts = <<>>
  /\ timeResult = NoResult
  /\ estimates = <<>>
  /\ clock = NoClock

Init == InitWith(TileGridArgs \cup TileDigitArgsFor({0}))

InitDigits == InitWith(TileDigitArgs)

(***************************************************************************)
(* The tiling solver.                                                      *)
(***************************************************************************)
\* Grid.place on some other Grid instance, between tiling calls: all it
\* shares with the solver's Grid is the identity counter
OtherGridPlace ==
  /\ pc = "idle"
  /\ otherPlacements < MaxOtherPlacements
  /\ otherPlacements' = otherPlacements + 1
  /\ pieceIdCounter' = GeneratePieceId(pieceIdCounter)
  /\ UNCHANGED <<pc, args, callNo, firstResult, grid, random, state, stack,
                 ctl, result, seqVars, timeVars, estimates,
                 clock>>
  /\ UNCHANGED gridVars

\* tileGrid up to its call of backtrack (tileDigit: after the digit check
\* and the mask lookup)
TileGridCall ==
  /\ pc = "idle"
  /\ pc' = "solve"
  /\ pieceIdCounter' = ResetPieceIdCounter(pieceIdCounter)
  /\ grid' = NewGrid(args.rows, args.cols, args.mask)
  /\ random' = SeedToNumber(args.seed)
  /\ state' = [attempts |-> 0, backtracks |-> 0,
               maxAttempts |-> MaxAttemptsOf(args.maxAttempts)]
  /\ stack' = <<>>
  /\ ctl' = "call"
  /\ UNCHANGED <<callVars, result, seqVars>>
  /\ UNCHANGED gridVars

\* the frame's loop position moved to the next anchor, or the next placement
Advance(frame) ==
  IF frame.a < Len(Rotation(frame.shuffledPlacements[frame.p].tetrominoType,
                            frame.shuffledPlacements[frame.p].rotationIndex))
  THEN [frame EXCEPT !.a = frame.a + 1, !.piece = 0]
  ELSE [frame EXCEPT !.p = frame.p + 1, !.a = 1, !.piece = 0]

Top == stack[Len(stack)]
SetTop(frame) == [stack EXCEPT ![Len(stack)] = frame]
Pop == SubSeq(stack, 1, Len(stack) - 1)

\* backtrack, from its entry to the start of its loops
BacktrackEnter ==
  /\ pc = "solve" /\ ctl = "call"
  /\ IF IsFull(grid)
     THEN ctl' = "true" /\ UNCHANGED <<stack, random>>
     ELSE IF state.attempts >= state.maxAttempts
     THEN ctl' = "false" /\ UNCHANGED <<stack, random>>
     ELSE LET sh == Shuffle(GetAllPlacements, random)
          IN  /\ stack' = Append(stack,
                     [emptyCell |-> FindFirstEmpty(grid),
                      shuffledPlacements |-> sh[1],
                      p |-> 1, a |-> 1, piece |-> 0])
              /\ random' = sh[2]
              /\ ctl' = "loop"
  /\ UNCHANGED <<pc, callVars, pieceIdCounter, grid, state, result, seqVars>>
  /\ UNCHANGED gridVars

\* one pass of the inner loop: count the attempt, place and recurse if the
\* anchor fits
TryAnchor ==
  /\ pc = "solve" /\ ctl = "loop"
  /\ Top.p <= Len(Top.shuffledPlacements)
  /\ LET pl == Top.shuffledPlacements[Top.p]
         anchor == GetAnchorsToCoverCell(pl.tetrominoType, pl.rotationIndex,
                                         Top.emptyCell)[Top.a]
         id == GeneratePieceId(pieceIdCounter)
     IN  /\ state' = [state EXCEPT !.attempts = state.attempts + 1]
         /\ IF CanPlace(grid, pl.tetrominoType, pl.rotationIndex, anchor)
            THEN /\ grid' = Place(grid, id, pl.tetrominoType,
                                  pl.rotationIndex, anchor)
                 /\ pieceIdCounter' = id
                 /\ stack' = SetTop([Top EXCEPT !.piece = id])
                 /\ ctl' = "call"
            ELSE /\ stack' = SetTop(Advance(Top))
                 /\ UNCHANGED <<grid, pieceIdCounter, ctl>>
  /\ UNCHANGED <<pc, callVars, random, result, seqVars>>
  /\ UNCHANGED gridVars

\* both loops are through: this invocation returns false
LoopExhausted ==
  /\ pc = "solve" /\ ctl = "loop"
  /\ Top.p > Len(Top.shuffledPlacements)
  /\ stack' = Pop
  /\ ctl' = "false"
  /\ UNCHANGED <<pc, callVars, pieceIdCounter, grid, random, state, result,
                 seqVars>>
  /\ UNCHANGED gridVars

\* the recursive call returned true: the caller returns true
ReturnTrue ==
  /\ pc = "solve" /\ ctl = "true" /\ stack # <<>>
  /\ stack' = Pop
  /\ UNCHANGED <<pc, callVars, pieceIdCounter, grid, random, state, ctl,
                 result, seqVars>>
  /\ UNCHANGED gridVars

\* the recursive call returned false: remove the piece, count the backtrack,
\* go on with the loops
ReturnFalse ==
  /\ pc = "solve" /\ ctl = "false" /\ stack # <<>>
  /\ grid' = Remove(grid, Top.piece)
  /\ state' = [state EXCEPT !.backtracks = state.backtracks + 1]
  /\ stack' = SetTop(Advance(Top))
  /\ ctl' = "loop"
  /\ UNCHANGED <<pc, callVars, pieceIdCounter, random, result, seqVars>>
  /\ UNCHANGED gridVars

\* tileGrid after backtrack returned: build the TileResult
TileGridReturn ==
  /\ pc = "solve" /\ ctl \in {"true", "false"} /\ stack = <<>>
  /\ result' = [success |-> (ctl = "true"),
                pieces |-> GetPlacedPieces(grid),
                grid |-> GetCells(grid),
                stats |-> [attempts |-> state.attempts,
                           backtracks |-> state.backtracks]]
  /\ pc' = "tiled"
  /\ UNCHANGED <<callVars, solverVars, seqVars>>
  /\ UNCHANGED gridVars


(***************************************************************************)
(* Sequencer helpers.                                                      *)
(***************************************************************************)
\* getBoundingBox
GetBoundingBox(cells) ==
  [minRow |-> SetMin({cells[k][1] : k \in DOMAIN cells}),
   maxRow |-> SetMax({cells[k][1] : k \in DOMAIN cells}),
   minCol |-> SetMin({cells[k][2] : k \in DOMAIN cells}),
   maxCol |-> SetMax({cells[k][2] : k \in DOMAIN cells})]

\* grid[row]?.[col] on a TileResult grid: the id there, 0 for null/undefined
GridRef(g, row, col) ==
  IF row + 1 \in DOMAIN g /\ col + 1 \in DOMAIN g[row + 1]
  THEN g[row + 1][col + 1] ELSE 0

\* canDropPiece: no cell above a cell of the piece belongs to a placed piece
CanDropPiece(piece, placedPieces, g) ==
  \A k \in DOMAIN piece.cells :
    \A row \in 0..(piece.cells[k][1] - 1) :
      LET cellAbove == GridRef(g, row, piece.cells[k][2])
      IN  ~(cellAbove # 0 /\ cellAbove \in placedPieces)

\* an isPieceSupported that never finds support
NeverSupported(piece, placed, maxRow) == FALSE

\* isPieceSupported: the lowest cell of each column of the piece is in the
\* bottom row or has a placed cell right below
IsPieceSupported(piece, placed, maxRow) ==
  LET cols == {piece.cells[k][2] : k \in DOMAIN piece.cells}
      lowest(col) == SetMax({piece.cells[k][1] :
                               k \in {j \in DOMAIN piece.cells :
                                        piece.cells[j][2] = col}})
  IN  \A col \in cols :
        \/ lowest(col) = maxRow
        \/ <<lowest(col) + 1, col>> \in placed

\* a generateSteps that teleports: spawn, then lock at the target
SpawnThenLock(piece, gridCols, gridRows) ==
  <<[action |-> "spawn", row |-> -1, col |-> 0],
    [action |-> "lock", row |-> piece.anchor[1], col |-> piece.anchor[2]]>>

RECURSIVE MoveSteps(_, _, _, _)
\* the move loop of generateSteps, m = from .. moveSteps-1
MoveSteps(spawnCol, direction, m, moveSteps) ==
  IF m >= moveSteps THEN <<>>
  ELSE <<[action |-> "move",
          col |-> spawnCol + (IF direction = "right" THEN m + 1 ELSE -(m + 1)),
          direction |-> direction]>>
       \o MoveSteps(spawnCol, direction, m + 1, moveSteps)

\* a generateSteps that rounds the centred spawn column up
GenerateStepsCeilCentre(piece, gridCols, gridRows) ==
  LET rotation == Rotation(piece.type, piece.rotationIndex)
      box == GetBoundingBox(rotation)
      pieceWidth == box.maxCol - box.minCol + 1
      pieceHeight == box.maxRow - box.minRow + 1
      spawnCol == (gridCols - pieceWidth + 1) \div 2
      spawnRow == -pieceHeight
      targetCol == piece.anchor[2]
      targetRow == piece.anchor[1]
      horizontalDiff == targetCol - spawnCol
      direction == IF horizontalDiff > 0 THEN "right" ELSE "left"
      absDiff == IF horizontalDiff < 0 THEN -horizontalDiff ELSE horizontalDiff
  IN  <<[action |-> "spawn", row |-> spawnRow, col |-> spawnCol]>>
      \o [r \in 1..piece.rotationIndex |-> [action |-> "rotate"]]
      \o MoveSteps(spawnCol, direction, 0, absDiff)
      \o [d \in 1..(targetRow - spawnRow) |->
            [action |-> "drop", row |-> spawnRow + d, col |-> targetCol]]
      \o <<[action |-> "lock", row |-> targetRow, col |-> targetCol]>>

\* generateSteps
GenerateSteps(piece, gridCols, gridRows) ==
  LET rotation == Rotation(piece.type, piece.rotationIndex)
      box == GetBoundingBox(rotation)
      pieceWidth == box.maxCol - box.minCol + 1
      pieceHeight == box.maxRow - box.minRow + 1
      \* Math.floor((gridCols - pieceWidth) / 2)
      spawnCol == (gridCols - pieceWidth) \div 2
      spawnRow == -pieceHeight
      targetCol == piece.anchor[2]
      targetRow == piece.anchor[1]
      horizontalDiff == targetCol - spawnCol
      direction == IF horizontalDiff > 0 THEN "right" ELSE "left"
      absDiff == IF horizontalDiff < 0 THEN -horizontalDiff ELSE horizontalDiff
  IN  <<[action |-> "spawn", row |-> spawnRow, col |-> spawnCol]>>
      \o [r \in 1..piece.rotationIndex |-> [action |-> "rotate"]]
      \o MoveSteps(spawnCol, direction, 0, absDiff)
      \o [d \in 1..(targetRow - spawnRow) |->
            [action |-> "drop", row |-> spawnRow + d, col |-> targetCol]]
      \o <<[action |-> "lock", row |-> targetRow, col |-> targetCol]>>

PieceMaxRow(piece) == GetBoundingBox(piece.cells).maxRow
PieceMinCol(piece) == GetBoundingBox(piece.cells).minCol

\* a comparator of the greedy loop's sort without its tie-breaker
GreedyCompareRowOnly(a, b) == PieceMaxRow(b) - PieceMaxRow(a)

\* the comparator of the greedy loop's sort: negative when a sorts before b
GreedyCompare(a, b) ==
  IF PieceMaxRow(a) # PieceMaxRow(b)
  THEN PieceMaxRow(b) - PieceMaxRow(a)
  ELSE PieceMinCol(a) - PieceMinCol(b)

\* the comparator of the fallback's queue sort
QueueCompare(a, b) == PieceMaxRow(b) - PieceMaxRow(a)

RECURSIVE InsertStable(_, _, _)
\* x put into the sorted list behind every element it does not sort before;
\* queue selects the fallback's comparator
InsertStable(sorted, x, queue) ==
  IF sorted = <<>> THEN <<x>>
  ELSE IF (IF queue THEN QueueCompare(x, Head(sorted))
                    ELSE GreedyCompare(x, Head(sorted))) < 0
       THEN <<x>> \o sorted
       ELSE <<Head(sorted)>> \o InsertStable(Tail(sorted), x, queue)

RECURSIVE SortFrom(_, _, _, _)
SortFrom(list, k, acc, queue) ==
  IF k > Len(list) THEN acc
  ELSE SortFrom(list, k + 1, InsertStable(acc, list[k], queue), queue)

\* supportedPieces.sort(...) of the greedy loop (Array.prototype.sort is stable)
SortSupported(list) == SortFrom(list, 1, <<>>, FALSE)

\* queue.sort(...) of the fallback, on pieces
SortQueue(list) == SortFrom(list, 1, <<>>, TRUE)

\* the piece of a list with a given id (pieceMap.get)
PieceById(pieces, id) ==
  pieces[CHOOSE k \in DOMAIN pieces : pieces[k].id = id]

\* the order index given to the next sequenced piece, off by one
OrderFromOne(seq) == Len(seq) + 1

\* the order index given to the next sequenced piece: sequence.length
NextOrder(seq) == Len(seq)

\* a SequencedPiece
Sequenced(piece, order, gridCols, gridRows) ==
  [piece |-> piece, order |-> order, dropColumn |-> piece.anchor[2],
   steps |-> GenerateSteps(piece, gridCols, gridRows)]

(***************************************************************************)
(* Fallback ordering.                                                      *)
(***************************************************************************)
\* the dependency set built for one piece: the ids of the other pieces found
\* above its cells
DependenciesOf(piece, g) ==
  UNION {{GridRef(g, row, piece.cells[k][2]) :
            row \in 0..(piece.cells[k][1] - 1)} : k \in DOMAIN piece.cells}
    \ {0, piece.id}


RECURSIVE ReleaseFrom(_, _, _, _, _)
\* the "update in-degrees" loop of the fallback over the dependency map, entry
\* k on: <<dependencies, inDegree, queue>> afterwards
ReleaseFrom(pieces, k, current, st, queue) ==
  IF k > Len(pieces) THEN <<st[1], st[2], queue>>
  ELSE IF current \in st[1][k]
  THEN LET deps == [st[1] EXCEPT ![k] = st[1][k] \ {current}]
           newDegree == st[2][k] - 1
           degs == [st[2] EXCEPT ![k] = newDegree]
       IN  ReleaseFrom(pieces, k + 1, current, <<deps, degs>>,
                       IF newDegree = 0 THEN Append(queue, pieces[k]) ELSE queue)
  ELSE ReleaseFrom(pieces, k + 1, current, st, queue)

RECURSIVE KahnLoop(_, _, _, _)
\* the while loop of the fallback: the pieces in sortedIds order
KahnLoop(pieces, st, queue, sortedIds) ==
  IF queue = <<>> THEN sortedIds
  ELSE LET sortedQueue == SortQueue(queue)
           current == Head(sortedQueue)
           next == ReleaseFrom(pieces, 1, current.id, st, Tail(sortedQueue))
       IN  KahnLoop(pieces, <<next[1], next[2]>>, next[3],
                    Append(sortedIds, current))

\* a tryReorderForValidSequence without its cycle check: the pieces sorted so
\* far are returned as a sequence
ReorderWithoutCycleCheck(pieces, g, gridRows, gridCols) ==
  LET dependencies == [k \in DOMAIN pieces |-> DependenciesOf(pieces[k], g)]
      inDegree == [k \in DOMAIN pieces |-> Cardinality(dependencies[k])]
      queue == SelectSeq(pieces,
                 LAMBDA q : Cardinality(DependenciesOf(q, g)) = 0)
      sorted == KahnLoop(pieces, <<dependencies, inDegree>>, queue, <<>>)
  IN  [success |-> TRUE,
       sequence |-> [i \in 1..Len(sorted) |->
                       Sequenced(sorted[i], i - 1, gridCols, gridRows)],
       rows |-> gridRows, cols |-> gridCols]

\* tryReorderForValidSequence: a SequenceResult, or NoSeqResult for null
TryReorderForValidSequence(pieces, g, gridRows, gridCols) ==
  LET dependencies == [k \in DOMAIN pieces |-> DependenciesOf(pieces[k], g)]
      inDegree == [k \in DOMAIN pieces |-> Cardinality(dependencies[k])]
      queue == SelectSeq(pieces,
                 LAMBDA q : Cardinality(DependenciesOf(q, g)) = 0)
      sorted == KahnLoop(pieces, <<dependencies, inDegree>>, queue, <<>>)
  IN  IF Len(sorted) # Len(pieces) THEN NoSeqResult
      ELSE [success |-> TRUE,
            sequence |-> [i \in 1..Len(sorted) |->
                            Sequenced(sorted[i], i - 1, gridCols, gridRows)],
            rows |-> gridRows, cols |-> gridCols]

(***************************************************************************)
(* The sequencer.                                                          *)
(***************************************************************************)
GridRows(g) == Len(g)
\* result.grid[0]?.length ?? 0
GridCols(g) == IF Len(g) > 0 THEN Len(g[1]) ELSE 0

\* a sequencePieces without its early return: whatever the TileResult, the
\* greedy loop is entered
SequenceStartUnguarded ==
  /\ pc = "tiled"
  /\ placedCells' = {}
  /\ remainingPieces' = [k \in DOMAIN result.pieces |-> result.pieces[k].id]
  /\ sequence' = <<>>
  /\ pc' = "seq"
  /\ UNCHANGED <<callVars, solverVars, result, seqResult, usedFallback>>
  /\ UNCHANGED gridVars

\* sequencePieces up to its while loop
SequenceStart ==
  /\ pc = "tiled"
  /\ IF ~result.success \/ Len(result.pieces) = 0
     THEN /\ seqResult' = [success |-> FALSE, sequence |-> <<>>,
                           rows |-> GridRows(result.grid),
                           cols |-> GridCols(result.grid)]
          /\ pc' = "done"
          /\ UNCHANGED <<placedCells, remainingPieces, sequence>>
     ELSE /\ placedCells' = {}
          /\ remainingPieces' = [k \in DOMAIN result.pieces |->
                                   result.pieces[k].id]
          /\ sequence' = <<>>
          /\ pc' = "seq"
          /\ UNCHANGED seqResult
  /\ UNCHANGED <<callVars, solverVars, result, usedFallback>>
  /\ UNCHANGED gridVars

\* the pieces the greedy loop may place now, in remainingPieces order
SupportedPieces ==
  LET maxRow == GridRows(result.grid) - 1
      placedIds == {sequence[k].piece.id : k \in DOMAIN sequence}
      remaining == [k \in DOMAIN remainingPieces |->
                      PieceById(result.pieces, remainingPieces[k])]
  IN  SelectSeq(remaining,
        LAMBDA piece : /\ IsPieceSupported(piece, placedCells, maxRow)
                       /\ CanDropPiece(piece, placedIds, result.grid))

\* one iteration of the while loop: commit a piece, or fall back
GreedyStep ==
  /\ pc = "seq" /\ remainingPieces # <<>>
  /\ LET gridRows == GridRows(result.grid)
         gridCols == GridCols(result.grid)
         supportedPieces == SupportedPieces
     IN  IF supportedPieces = <<>>
         THEN /\ seqResult' =
                   LET fallbackResult ==
                         TryReorderForValidSequence(result.pieces, result.grid,
                                                    gridRows, gridCols)
                   IN  IF fallbackResult.success THEN fallbackResult
                       ELSE [success |-> FALSE, sequence |-> <<>>,
                             rows |-> gridRows, cols |-> gridCols]
              /\ usedFallback' = TRUE
              /\ pc' = "done"
              /\ UNCHANGED <<placedCells, remainingPieces, sequence>>
         ELSE LET piece == SortSupported(supportedPieces)[1]
              IN  /\ remainingPieces' =
                       SelectSeq(remainingPieces, LAMBDA id : id # piece.id)
                  /\ placedCells' = placedCells \cup CellSet(piece)
                  /\ sequence' = Append(sequence,
                       Sequenced(piece, NextOrder(sequence), gridCols, gridRows))
                  /\ UNCHANGED <<pc, seqResult, usedFallback>>
  /\ UNCHANGED <<callVars, solverVars, result>>
  /\ UNCHANGED gridVars

\* the while loop ended: sequencePieces returns the sequence
SequenceReturn ==
  /\ pc = "seq" /\ remainingPieces = <<>>
  /\ seqResult' = [success |-> TRUE, sequence |-> sequence,
                   rows |-> GridRows(result.grid),
                   cols |-> GridCols(result.grid)]
  /\ pc' = "done"
  /\ UNCHANGED <<callVars, solverVars, result, placedCells, remainingPieces,
                 sequence, usedFallback>>
  /\ UNCHANGED gridVars

\* the caller makes the same tiling call again
CallAgain ==
  /\ pc = "done"
  /\ callNo < NumCalls
  /\ callNo' = callNo + 1
  /\ firstResult' = IF callNo = 1 THEN result ELSE firstResult
  /\ pc' = "idle"
  /\ placedCells' = {}
  /\ remainingPieces' = <<>>
  /\ sequence' = <<>>
  /\ seqResult' = NoSeqResult
  /\ usedFallback' = FALSE
  /\ UNCHANGED <<args, otherPlacements, solverVars, result, timeVars,
                 estimates, clock>>
  /\ UNCHANGED gridVars

Solve ==
  \/ TileGridCall
  \/ BacktrackEnter
  \/ TryAnchor
  \/ LoopExhausted
  \/ ReturnTrue
  \/ ReturnFalse
  \/ TileGridReturn

Sequence ==
  \/ SequenceStart
  \/ GreedyStep
  \/ SequenceReturn

Next ==
  \/ OtherGridPlace
  \/ Solve
  \/ Sequence
  \/ CallAgain

\* tiling calls on small grids, made twice, with placements on other grids
\* in between, each followed by sequencePieces
Spec == Init /\ [][Next]_vars

\* the tileGrid calls of Spec, each carried on once it is made: tileGrid
\* and sequencePieces run on the calling thread, which executes the next
\* statement of the call until it returns
InitLive == InitWith(TileGridArgs)

\* a call is on the calling thread's stack
CallRunning == pc \in {"solve", "seq"}

\* the running call has a next statement: the guards of BacktrackEnter,
\* TryAnchor, LoopExhausted, ReturnTrue, ReturnFalse and TileGridReturn
\* cover every position of the search (the guards of GreedyStep and
\* SequenceReturn are complementary)
CallCanStep ==
  pc = "solve" => \/ ctl = "call"
                  \/ ctl = "loop" /\ stack # <<>>
                  \/ ctl \in {"true", "false"}

\* weak fairness of the running call, WF_vars(CallRunning /\ Next), with
\* the enabling condition of that action written out as CallRunning
SpecLive ==
  /\ InitLive /\ [][Next]_vars
  /\ ([]<>~CallRunning \/ []<><<CallRunning>>_vars)

NextDigits ==
  \/ Solve
  \/ Sequence

\* tileDigit for each digit, followed by sequencePieces
SpecDigits == InitDigits /\ [][NextDigits]_vars

\* a mask with every cell lit
AllLit(rows, cols) == [r \in 1..rows |-> [c \in 1..cols |-> Lit]]

RECURSIVE TilingsFrom(_, _)
\* every way to fill the Grid g up, each further piece covering the first
\* empty cell, as in the solver; the pieces are numbered in placement order
TilingsFrom(g, counter) ==
  IF IsFull(g) THEN {g}
  ELSE LET target == FindFirstEmpty(g)
           id == GeneratePieceId(counter)
       IN  UNION {
             UNION {
               IF CanPlace(g, pl.tetrominoType, pl.rotationIndex, anchor)
               THEN TilingsFrom(Place(g, id, pl.tetrominoType,
                                      pl.rotationIndex, anchor), id)
               ELSE {} :
               anchor \in Range(GetAnchorsToCoverCell(
                                  pl.tetrominoType, pl.rotationIndex, target))} :
             pl \in Range(GetAllPlacements)}

\* the TileResults a caller may hold for the all-lit grids of 4 rows and 0
\* to maxCols columns, and for the grid without rows: each tiling, marked
\* successful or not
TileResultInputs(maxCols) ==
  {[success |-> ok, pieces |-> GetPlacedPieces(g), grid |-> GetCells(g),
    stats |-> [attempts |-> 0, backtracks |-> 0]] :
     g \in UNION {TilingsFrom(NewGrid(size[1], size[2],
                                      AllLit(size[1], size[2])), 0) :
                    size \in {<<0, 0>>} \cup
                             {<<4, c>> : c \in 0..maxCols}},
     ok \in BOOLEAN}

\* sequencePieces called on a TileResult the caller holds, one of inputs
InitSequencerOn(inputs) ==
  /\ pc = "tiled"
  /\ result \in inputs
  /\ args = [entry |-> "sequencePieces", digit |-> 0,
             rows |-> GridRows(result.grid), cols |-> GridCols(result.grid),
             mask |-> AllLit(GridRows(result.grid), GridCols(result.grid)),
             seed |-> NumberSeed(0), maxAttempts |-> {}]
  /\ callNo = 1
  /\ otherPlacements = 0
  /\ pieceIdCounter = 0
  /\ grid = NoGrid
  /\ random = <<0, 0>>
  /\ state = NoState
  /\ stack = <<>>
  /\ ctl = "call"
  /\ firstResult = NoResult
  /\ placedCells = {}
  /\ remainingPieces = <<>>
  /\ sequence = <<>>
  /\ seqResult = NoSeqResult
  /\ usedFallback = FALSE
  /\ lastOp = NoOp
  /\ before = [grid |-> NoGrid, pieceIdCounter |-> 0]
  /\ timeCall = NoTimeCall
  /\ parts = <<>>
  /\ timeResult = NoResult
  /\ estimates = <<>>
  /\ clock = NoClock

InitSequencer == InitSequencerOn(TileResultInputs(MaxTilingCols))

\* sequencePieces on every tiling of a few small grids
SpecSequencer == InitSequencer /\ [][Sequence]_vars

\* rows of cells that hold no piece (null)
EmptyRows(rows, cols) == [r \in 1..rows |-> [c \in 1..cols |-> 0]]

\* the TileResults a caller may hand to sequencePieces whose grid has unfilled
\* rows below the pieces: each tiling of an all-lit grid of 2 or 3 rows and 0
\* to maxCols columns, with no or two rows of empty cells beneath it, marked
\* successful or not
FloatingTileResults(maxCols) ==
  {[success |-> ok, pieces |-> GetPlacedPieces(g),
    grid |-> GetCells(g) \o EmptyRows(gap, g.cols),
    stats |-> [attempts |-> 0, backtracks |-> 0]] :
     g \in UNION {TilingsFrom(NewGrid(size[1], size[2],
                                      AllLit(size[1], size[2])), 0) :
                    size \in {2, 3} \X (0..maxCols)},
     gap \in {0, 2},
     ok \in BOOLEAN}

InitFallback == InitSequencerOn(FloatingTileResults(MaxTilingCols))

\* sequencePieces on tilings whose pieces all sit above empty rows (the
\* greedy loop finds no supported piece and falls back) and on complete
\* tilings
SpecFallback == InitFallback /\ [][Sequence]_vars

\* every catalog piece that lies inside a rows x cols grid
PlacementsInside(rows, cols) ==
  {pa \in Range(GetAllPlacements) \X ((0..(rows - 1)) \X (0..(cols - 1))) :
     \A c \in Range(GetAbsoluteCells(pa[1].tetrominoType,
                                     pa[1].rotationIndex, pa[2])) :
       /\ c[1] >= 0 /\ c[1] < rows
       /\ c[2] >= 0 /\ c[2] < cols}

\* the TileResults a caller may assemble from two catalog pieces in a grid of
\* 4 rows and maxCols columns: the second piece is written over the cells it
\* shares with the first, the cells no piece covers are empty
OverlaidTileResults(maxCols) ==
  {LET g == Place(Place(NewGrid(4, maxCols, AllLit(4, maxCols)), 1,
                        two[1][1].tetrominoType, two[1][1].rotationIndex,
                        two[1][2]),
                  2, two[2][1].tetrominoType, two[2][1].rotationIndex,
                  two[2][2])
   IN  [success |-> TRUE, pieces |-> GetPlacedPieces(g), grid |-> GetCells(g),
        stats |-> [attempts |-> 0, backtracks |-> 0]] :
     two \in PlacementsInside(4, maxCols) \X PlacementsInside(4, maxCols)}

InitOverlay == InitSequencerOn(OverlaidTileResults(MaxOverlayCols))

\* sequencePieces on caller-built TileResults of two pieces that may float,
\* rest on each other or interlock
SpecOverlay == InitOverlay /\ [][Sequence]_vars


(***************************************************************************)
(* The Grid used directly: canPlace, place, remove, findFirstEmpty and     *)
(* isFull called in any order with any arguments, and placements on other  *)
(* Grids in between.                                                       *)
(***************************************************************************)
\* the Grids a caller builds: 3 x 4 with a lit top row and lit left columns,
\* and 2 x 4 all lit
GridApiInputs ==
  {NewGrid(3, 4, << <<Lit, Lit, Lit, Lit>>, <<Lit, Lit, Unl, Unl>>,
                    <<Lit, Lit, Unl, Unl>> >>),
   NewGrid(2, 4, AllLit(2, 4))}

\* the anchors tried: every cell of the Grid and one ring around it
AnchorInputs(g) == ((-1)..g.rows) \X ((-1)..g.cols)

InitGrid ==
  /\ pc = "grid"
  /\ grid \in GridApiInputs
  /\ args = [entry |-> "Grid", digit |-> 0, rows |-> grid.rows,
             cols |-> grid.cols, mask |-> grid.mask, seed |-> NumberSeed(0),
             maxAttempts |-> {}]
  /\ callNo = 1
  /\ otherPlacements = 0
  /\ pieceIdCounter = 0
  /\ random = <<0, 0>>
  /\ state = NoState
  /\ stack = <<>>
  /\ ctl = "call"
  /\ result = NoResult
  /\ firstResult = NoResult
  /\ placedCells = {}
  /\ remainingPieces = <<>>
  /\ sequence = <<>>
  /\ seqResult = NoSeqResult
  /\ usedFallback = FALSE
  /\ lastOp = NoOp
  /\ before = [grid |-> grid, pieceIdCounter |-> 0]
  /\ timeCall = NoTimeCall
  /\ parts = <<>>
  /\ timeResult = NoResult
  /\ estimates = <<>>
  /\ clock = NoClock

\* what no Grid operation touches
gridFrame == <<callVars, random, state, stack, ctl, result, seqVars>>

Snapshot == [grid |-> grid, pieceIdCounter |-> pieceIdCounter]

\* grid.canPlace(tetromino, rotationIndex, anchor)
GridCanPlace ==
  /\ pc = "grid" /\ pc' = "called"
  /\ \E k \in DOMAIN GetAllPlacements : \E anchor \in AnchorInputs(grid) :
       LET pl == GetAllPlacements[k]
       IN  lastOp' = [NoOp EXCEPT
                        !.op = "canPlace", !.type = pl.tetrominoType,
                        !.rotationIndex = pl.rotationIndex, !.anchor = anchor,
                        !.bool = CanPlace(grid, pl.tetrominoType,
                                          pl.rotationIndex, anchor)]
  /\ before' = Snapshot
  /\ UNCHANGED <<gridFrame, grid, pieceIdCounter>>

\* grid.place(tetromino, rotationIndex, anchor): throws, or places
GridPlace ==
  /\ pc = "grid" /\ pc' = "called"
  /\ \E k \in DOMAIN GetAllPlacements : \E anchor \in AnchorInputs(grid) :
       LET pl == GetAllPlacements[k]
           called == [NoOp EXCEPT
                        !.op = "place", !.type = pl.tetrominoType,
                        !.rotationIndex = pl.rotationIndex, !.anchor = anchor]
           id == GeneratePieceId(pieceIdCounter)
       IN  IF ~CanPlace(grid, pl.tetrominoType, pl.rotationIndex, anchor)
           THEN /\ lastOp' = [called EXCEPT !.threw = TRUE]
                /\ UNCHANGED <<grid, pieceIdCounter>>
           ELSE /\ pieceIdCounter < MaxPieceIds
                /\ pieceIdCounter' = id
                /\ grid' = Place(grid, id, pl.tetrominoType, pl.rotationIndex,
                                 anchor)
                /\ lastOp' = [called EXCEPT !.placed = id]
  /\ before' = Snapshot
  /\ UNCHANGED gridFrame

\* grid.remove(pieceId): throws, or removes
GridRemove ==
  /\ pc = "grid" /\ pc' = "called"
  /\ \E pieceId \in 1..MaxPieceIds :
       LET called == [NoOp EXCEPT !.op = "remove", !.pieceId = pieceId]
       IN  IF ~HasPiece(grid, pieceId)
           THEN /\ lastOp' = [called EXCEPT !.threw = TRUE]
                /\ UNCHANGED grid
           ELSE /\ grid' = Remove(grid, pieceId)
                /\ lastOp' = called
  /\ before' = Snapshot
  /\ UNCHANGED <<gridFrame, pieceIdCounter>>

\* const piece = grid.place(...); grid.remove(piece.id): what the solver does
\* around a recursive call that fails at once
GridPlaceThenRemove ==
  /\ pc = "grid" /\ pc' = "called"
  /\ pieceIdCounter < MaxPieceIds
  /\ \E k \in DOMAIN GetAllPlacements : \E anchor \in AnchorInputs(grid) :
       LET pl == GetAllPlacements[k]
           id == GeneratePieceId(pieceIdCounter)
       IN  /\ CanPlace(grid, pl.tetrominoType, pl.rotationIndex, anchor)
           /\ pieceIdCounter' = id
           /\ grid' = Remove(Place(grid, id, pl.tetrominoType,
                                   pl.rotationIndex, anchor), id)
           /\ lastOp' = [NoOp EXCEPT
                            !.op = "placeRemove", !.type = pl.tetrominoType,
                            !.rotationIndex = pl.rotationIndex,
                            !.anchor = anchor, !.placed = id, !.pieceId = id]
  /\ before' = Snapshot
  /\ UNCHANGED gridFrame

\* grid.findFirstEmpty()
GridFindFirstEmpty ==
  /\ pc = "grid" /\ pc' = "called"
  /\ lastOp' = [NoOp EXCEPT !.op = "findFirstEmpty",
                            !.cell = FindFirstEmpty(grid)]
  /\ before' = Snapshot
  /\ UNCHANGED <<gridFrame, grid, pieceIdCounter>>

\* grid.isFull()
GridIsFull ==
  /\ pc = "grid" /\ pc' = "called"
  /\ lastOp' = [NoOp EXCEPT !.op = "isFull", !.bool = IsFull(grid)]
  /\ before' = Snapshot
  /\ UNCHANGED <<gridFrame, grid, pieceIdCounter>>

\* a successful place on some other Grid: it draws an identity
GridOtherPlace ==
  /\ pc = "grid" /\ pc' = "called"
  /\ pieceIdCounter < MaxPieceIds
  /\ pieceIdCounter' = GeneratePieceId(pieceIdCounter)
  /\ lastOp' = [NoOp EXCEPT !.op = "otherPlace"]
  /\ before' = Snapshot
  /\ UNCHANGED <<gridFrame, grid>>

\* the caller goes on to its next Grid operation
GridReturn ==
  /\ pc = "called"
  /\ pc' = "grid"
  /\ lastOp' = NoOp
  /\ before' = Snapshot
  /\ UNCHANGED <<gridFrame, grid, pieceIdCounter>>

NextGrid ==
  \/ GridCanPlace
  \/ GridPlace
  \/ GridRemove
  \/ GridPlaceThenRemove
  \/ GridFindFirstEmpty
  \/ GridIsFull
  \/ GridOtherPlace
  \/ GridReturn

\* one Grid under arbitrary calls of its operations
SpecGrid == InitGrid /\ [][NextGrid]_vars

\* the pieces the search of a tileGrid call places: none on a 1 x 1 grid,
\* where no tetromino fits, and one O on a 2 x 2 grid
TileGridPlacements == {0, 1}

\* a whole tileGrid call made while the caller holds its Grid: the call
\* resets the identity counter, builds its own Grid and draws one identity
\* for every piece its search places
GridTileGrid ==
  /\ pc = "grid" /\ pc' = "called"
  /\ \E placed \in TileGridPlacements :
       pieceIdCounter' = ResetPieceIdCounter(pieceIdCounter) + placed
  /\ lastOp' = [NoOp EXCEPT !.op = "tileGrid"]
  /\ before' = Snapshot
  /\ UNCHANGED <<gridFrame, grid>>

NextShared ==
  \/ GridPlace
  \/ GridRemove
  \/ GridOtherPlace
  \/ GridTileGrid
  \/ GridReturn

\* one Grid under place and remove, with tileGrid calls and placements on
\* other Grids in between
SpecShared == InitGrid /\ [][NextShared]_vars

(***************************************************************************)
(* tileDigit, tileTime and tileTimeGrid as entry points: the argument      *)
(* checks, the tiling calls they make one after the other, and the splice  *)
(* of tileTimeGrid.  The calls are made with numeric seeds.                *)
(***************************************************************************)
\* options?.digitGapCols ?? TIME_DIGIT_GAP_COLS (an absent option is {})
DigitGapColsOf(call) ==
  IF call.digitGapCols = {} THEN TIME_DIGIT_GAP_COLS
  ELSE CHOOSE n \in call.digitGapCols : TRUE

\* options?.colonGapCols ?? TIME_COLON_GAP_COLS
ColonGapColsOf(call) ==
  IF call.colonGapCols = {} THEN TIME_COLON_GAP_COLS
  ELSE CHOOSE n \in call.colonGapCols : TRUE

\* totalCols
TotalCols(call) ==
  DIGIT_COLS * 4 + DigitGapColsOf(call) * 2 + ColonGapColsOf(call)

\* h1, h2, m1, m2 of hours and minutes that passed the checks
DigitsOf(hours, minutes) ==
  << JsInt(IntegerOf(hours) \div 10), JsInt(IntegerOf(hours) % 10),
     JsInt(IntegerOf(minutes) \div 10), JsInt(IntegerOf(minutes) % 10) >>

\* gapMask(cols): DIGIT_ROWS rows of cols times false
GapMask(cols) == [r \in 1..DIGIT_ROWS |-> [c \in 1..cols |-> FALSE]]

\* buildTimeMask for hours and minutes that pass validateTime: DIGIT_ROWS rows
\* of false, then the four digit patterns copied in at their column offsets,
\* a later digit over an earlier one
BuildTimeMask(hours, minutes, digitGapCols, colonGapCols) ==
  LET digitValues == DigitsOf(hours, minutes)
      gaps == <<digitGapCols, colonGapCols, digitGapCols>>
      cols == DIGIT_COLS * 4 + gaps[1] + gaps[2] + gaps[3]
      colOffset == [digitIndex \in 1..4 |->
                      DIGIT_COLS * (digitIndex - 1)
                      + (IF digitIndex > 1 THEN gaps[1] ELSE 0)
                      + (IF digitIndex > 2 THEN gaps[2] ELSE 0)
                      + (IF digitIndex > 3 THEN gaps[3] ELSE 0)]
      written(col) == {digitIndex \in 1..4 :
                         /\ colOffset[digitIndex] <= col
                         /\ col < colOffset[digitIndex] + DIGIT_COLS}
  IN  [r \in 1..DIGIT_ROWS |->
         [c \in 1..cols |->
            IF written(c - 1) = {} THEN FALSE
            ELSE LET digitIndex == SetMax(written(c - 1))
                 IN  DigitPattern(IntegerOf(digitValues[digitIndex]))
                       [r][c - colOffset[digitIndex]]]]

\* baseSeed + k, with baseSeed = seedToNumber(options?.seed) of a numeric seed
SeedPlus(seed, k) == NumberSeed(seed.num + k)

\* the tiling calls of tileDigit (just the one)
TileDigitParts(call) ==
  << [kind |-> "digit", digit |-> call.digit, cols |-> DIGIT_COLS,
      seedOffset |-> 0, colOffset |-> 0] >>

\* the tiling calls of tileTime, in the order they are made
TileTimeParts(call) ==
  LET d == DigitsOf(call.hours, call.minutes)
  IN  [k \in 1..4 |-> [kind |-> "digit", digit |-> d[k], cols |-> DIGIT_COLS,
                       seedOffset |-> k - 1, colOffset |-> 0]]

\* the tiling calls of tileTimeGrid, in the order they are made: d0, g0, d1,
\* g1, d2, g2, d3, each with its seed offset and its column offset
TileTimeGridParts(call) ==
  LET d  == DigitsOf(call.hours, call.minutes)
      dg == DigitGapColsOf(call)
      cg == ColonGapColsOf(call)
  IN  << [kind |-> "digit", digit |-> d[1], cols |-> DIGIT_COLS,
          seedOffset |-> 0, colOffset |-> 0],
         [kind |-> "gap", digit |-> JsInt(0), cols |-> dg,
          seedOffset |-> 10, colOffset |-> DIGIT_COLS],
         [kind |-> "digit", digit |-> d[2], cols |-> DIGIT_COLS,
          seedOffset |-> 1, colOffset |-> DIGIT_COLS + dg],
         [kind |-> "gap", digit |-> JsInt(0), cols |-> cg,
          seedOffset |-> 11, colOffset |-> DIGIT_COLS * 2 + dg],
         [kind |-> "digit", digit |-> d[3], cols |-> DIGIT_COLS,
          seedOffset |-> 2, colOffset |-> DIGIT_COLS * 2 + dg + cg],
         [kind |-> "gap", digit |-> JsInt(0), cols |-> dg,
          seedOffset |-> 12, colOffset |-> DIGIT_COLS * 3 + dg + cg],
         [kind |-> "digit", digit |-> d[4], cols |-> DIGIT_COLS,
          seedOffset |-> 3, colOffset |-> DIGIT_COLS * 3 + dg * 2 + cg] >>

TimeParts(call) ==
  IF call.entry = "tileDigit" THEN TileDigitParts(call)
  ELSE IF call.entry = "tileTime" THEN TileTimeParts(call)
  ELSE TileTimeGridParts(call)

\* the arguments of a call that threw
ThrownArgs == [entry |-> "threw", digit |-> 0, rows |-> 0, cols |-> 0,
               mask |-> <<>>, seed |-> NumberSeed(0), maxAttempts |-> {}]

\* tileDigit: the digit check, then what it calls tileGrid with
TileDigit(digit, seed, maxAttempts) ==
  IF InvalidDigit(digit) THEN ThrownArgs
  ELSE [entry |-> "tileDigit", digit |-> IntegerOf(digit),
        rows |-> DIGIT_ROWS, cols |-> DIGIT_COLS,
        mask |-> DigitPattern(IntegerOf(digit)),
        seed |-> seed, maxAttempts |-> maxAttempts]

\* the tileGrid call a part stands for
PartArgs(call, part) ==
  IF part.kind = "digit"
  THEN TileDigit(part.digit, SeedPlus(call.seed, part.seedOffset),
                 call.maxAttempts)
  ELSE [entry |-> "tileGrid", digit |-> 0, rows |-> DIGIT_ROWS,
        cols |-> part.cols, mask |-> GapMask(part.cols),
        seed |-> SeedPlus(call.seed, part.seedOffset),
        maxAttempts |-> call.maxAttempts]

\* a splice that moves the piece and leaves its identity as it was
ShiftOnly(original, id, colOffset) ==
  [original EXCEPT
     !.anchor = <<original.anchor[1], original.anchor[2] + colOffset>>,
     !.cells = [k \in 1..Len(original.cells) |->
                  <<original.cells[k][1], original.cells[k][2] + colOffset>>]]

\* a splice that moves the cells and leaves the anchor where it was
ShiftCellsOnly(original, id, colOffset) ==
  [original EXCEPT
     !.id = id,
     !.cells = [k \in 1..Len(original.cells) |->
                  <<original.cells[k][1], original.cells[k][2] + colOffset>>]]

\* the spliced copy of a part's piece: a new identity, anchor and cells
\* moved right by the part's column offset
ShiftPiece(original, id, colOffset) ==
  [original EXCEPT
     !.id = id,
     !.anchor = <<original.anchor[1], original.anchor[2] + colOffset>>,
     !.cells = [k \in 1..Len(original.cells) |->
                  <<original.cells[k][1], original.cells[k][2] + colOffset>>]]

\* for (const original of part.result.pieces) pieces.push(copy): the copies
\* of one part's pieces, combinedId being the number of pieces pushed before
SplicePieces(list, colOffset, combinedId) ==
  [k \in 1..Len(list) |-> ShiftPiece(list[k], combinedId + k, colOffset)]

RECURSIVE SpliceParts(_, _, _, _)
\* for (const part of parts): the pieces list after parts p.. are spliced
SpliceParts(results, partList, p, pieces) ==
  IF p > Len(results) THEN pieces
  ELSE SpliceParts(results, partList, p + 1,
                   pieces \o SplicePieces(results[p].pieces,
                                          partList[p].colOffset, Len(pieces)))

\* grid[cell.row][cell.col] = piece for every cell of every piece, in list
\* order: a cell ends up referencing the last piece that has it (its id
\* stands for the reference), or stays null
SplicedGrid(pieces, totalCols) ==
  [r \in 1..DIGIT_ROWS |-> [c \in 1..totalCols |->
     LET writers == {k \in 1..Len(pieces) :
                      <<r - 1, c - 1>> \in CellSet(pieces[k])}
     IN  IF writers = {} THEN 0 ELSE pieces[SetMax(writers)].id]]

RECURSIVE SumOver(_, _, _)
\* parts.reduce((sum, p) => sum + ..., 0)
SumOver(results, p, field) ==
  IF p > Len(results) THEN 0
  ELSE results[p].stats[field] + SumOver(results, p + 1, field)

\* a tileTimeGrid that splices whatever the regions returned and hands the
\* spliced pieces out even when a region failed
TimeGridResultKeepsPieces(call, results) ==
  LET totalCols == TotalCols(call)
      pieces == SpliceParts(results, TileTimeGridParts(call), 1, <<>>)
      grid0  == SplicedGrid(pieces, totalCols)
  IN  [success |-> /\ \A p \in 1..Len(results) : results[p].success
                   /\ \A r \in 1..DIGIT_ROWS : \A c \in 1..totalCols :
                        grid0[r][c] # 0,
       pieces |-> pieces, grid |-> grid0,
       stats |-> [attempts |-> SumOver(results, 1, "attempts"),
                  backtracks |-> SumOver(results, 1, "backtracks")]]

\* tileTimeGrid after its seven tiling calls: the unified TileResult
TimeGridResult(call, results) ==
  LET totalCols == TotalCols(call)
      nulls == [r \in 1..DIGIT_ROWS |-> [c \in 1..totalCols |-> 0]]
      stats == [attempts |-> SumOver(results, 1, "attempts"),
                backtracks |-> SumOver(results, 1, "backtracks")]
  IN  IF \E p \in 1..Len(results) : ~results[p].success
      THEN [success |-> FALSE, pieces |-> <<>>, grid |-> nulls,
            stats |-> stats]
      ELSE LET pieces == SpliceParts(results, TileTimeGridParts(call), 1,
                                     <<>>)
               grid0  == SplicedGrid(pieces, totalCols)
           IN  \* ensure full coverage
               IF \E r \in 1..DIGIT_ROWS : \E c \in 1..totalCols :
                    grid0[r][c] = 0
               THEN [success |-> FALSE, pieces |-> <<>>, grid |-> grid0,
                     stats |-> stats]
               ELSE [success |-> TRUE, pieces |-> pieces,
                     grid |-> grid0, stats |-> stats]

\* numbers that are no digit, hour or minute: max is the largest valid one
InvalidNumbers(max) ==
  {JsInt(-1), JsInt(max + 1), JsHalfAfter(1), JsNaN, JsInfinity,
   JsNegInfinity}

TimeSeeds == {NumberSeed(n) : n \in 0..MaxTimeSeed}

TileDigitCalls ==
  {[NoTimeCall EXCEPT !.entry = "tileDigit", !.digit = d, !.seed = s] :
     d \in {JsInt(0), JsInt(9)} \cup InvalidNumbers(9), s \in TimeSeeds}

\* hours and minutes: two valid times, and every pairing of a valid or
\* invalid hour with a valid or invalid minute that has an invalid one
TimeInputs ==
  LET hs == {JsInt(0), JsInt(23)} \cup InvalidNumbers(23)
      ms == {JsInt(0), JsInt(59)} \cup InvalidNumbers(59)
  IN  {<<JsInt(12), JsInt(34)>>, <<JsInt(23), JsInt(59)>>}
      \cup {t \in hs \X ms : InvalidHours(t[1]) \/ InvalidMinutes(t[2])}

TileTimeCalls ==
  {[NoTimeCall EXCEPT !.entry = "tileTime", !.hours = t[1],
                      !.minutes = t[2], !.seed = s] :
     t \in TimeInputs, s \in TimeSeeds}

\* tileTimeGrid with the default gaps, without gaps, with a budget every
\* region runs into, and with a budget only the digits run into
TileTimeGridCalls ==
  {[NoTimeCall EXCEPT !.entry = "tileTimeGrid", !.hours = t[1],
                      !.minutes = t[2], !.seed = s,
                      !.maxAttempts = o[1], !.digitGapCols = o[2],
                      !.colonGapCols = o[3]] :
     t \in TimeInputs, s \in TimeSeeds,
     o \in {<<{}, {}, {}>>, <<{}, {0}, {0}>>, <<{SmallBudget}, {}, {}>>,
            <<{MidBudget}, {}, {}>>}}

NoArgs == [entry |-> "none", digit |-> 0, rows |-> 0, cols |-> 0,
           mask |-> <<>>, seed |-> NumberSeed(0), maxAttempts |-> {}]

InitTime ==
  /\ pc = "start"
  /\ timeCall \in TileDigitCalls \cup TileTimeCalls \cup TileTimeGridCalls
  /\ parts = <<>>
  /\ timeResult = NoResult
  /\ estimates = <<>>
  /\ clock = NoClock
  /\ args = NoArgs
  /\ callNo = 1
  /\ otherPlacements = 0
  /\ pieceIdCounter = 0
  /\ grid = NoGrid
  /\ random = <<0, 0>>
  /\ state = NoState
  /\ stack = <<>>
  /\ ctl = "call"
  /\ result = NoResult
  /\ firstResult = NoResult
  /\ placedCells = {}
  /\ remainingPieces = <<>>
  /\ sequence = <<>>
  /\ seqResult = NoSeqResult
  /\ usedFallback = FALSE
  /\ lastOp = NoOp
  /\ before = [grid |-> NoGrid, pieceIdCounter |-> 0]

timeFrame == <<callNo, otherPlacements, firstResult, timeCall, solverVars,
               result, seqVars, gridVars, estimates, clock>>

\* tileDigit / tileTime / tileTimeGrid from its entry to its first tiling
\* call: the checks of hours and minutes (tileTime, validateTime), then the
\* digit check of the first tileDigit
TimeCall ==
  /\ pc = "start"
  /\ IF /\ timeCall.entry \in {"tileTime", "tileTimeGrid"}
        /\ InvalidHours(timeCall.hours) \/ InvalidMinutes(timeCall.minutes)
     THEN pc' = "threw" /\ UNCHANGED args
     ELSE LET first == PartArgs(timeCall, TimeParts(timeCall)[1])
          IN  IF first.entry = "threw"
              THEN pc' = "threw" /\ UNCHANGED args
              ELSE pc' = "idle" /\ args' = first
  /\ UNCHANGED <<parts, timeResult>>
  /\ UNCHANGED timeFrame

\* a tiling call returned: keep its result, make the next tiling call, or,
\* after the last one, return (tileTimeGrid: splice the parts)
TimePartReturn ==
  /\ pc = "tiled"
  /\ timeCall.entry # "none"
  /\ LET results == Append(parts, result)
         partList == TimeParts(timeCall)
     IN  /\ parts' = results
         /\ IF Len(results) < Len(partList)
            THEN LET next == PartArgs(timeCall, partList[Len(results) + 1])
                 IN  /\ IF next.entry = "threw"
                        THEN pc' = "threw" /\ UNCHANGED args
                        ELSE pc' = "idle" /\ args' = next
                     /\ UNCHANGED timeResult
            ELSE /\ pc' = "returned"
                 /\ timeResult' =
                      IF timeCall.entry = "tileTimeGrid"
                      THEN TimeGridResult(timeCall, results)
                      ELSE result
                 /\ UNCHANGED args
  /\ UNCHANGED timeFrame

NextTime ==
  \/ TimeCall
  \/ Solve
  \/ TimePartReturn

\* one call of tileDigit, tileTime or tileTimeGrid
SpecTime == InitTime /\ [][NextTime]_vars

(***************************************************************************)
(* estimateAnimationDurationMs (the sequential estimate with think pause   *)
(* and minimum hard-drop delay).  Durations are whole milliseconds.         *)
(***************************************************************************)
\* config.x ?? 0 (an absent option is {})
OrZero(option) == IF option = {} THEN 0 ELSE CHOOSE n \in option : TRUE

\* a % n of JavaScript: the remainder has the sign of a
JsRemainder(a, n) == IF a >= 0 THEN a % n ELSE -((-a) % n)

Min2(a, b) == IF a < b THEN a ELSE b
Max2(a, b) == IF a > b THEN a ELSE b

\* rotateSteps: the rotation index brought into 0..rotationCount-1, 0 for a
\* type with one rotation
RotateSteps(piece) ==
  LET rotationCount == Len(TETROMINOES[piece.type])
      targetRotation ==
        (JsRemainder(piece.rotationIndex, rotationCount) + rotationCount)
          % rotationCount
  IN  IF rotationCount <= 1 THEN 0 ELSE targetRotation

\* seqPiece.steps.filter((s) => s.action === "move").length
MoveStepCount(steps) == Len(SelectSeq(steps, LAMBDA st : st.action = "move"))

\* a loop body in which gravity never runs during the actions: every row of
\* the fall is hard-dropped
PieceDurationAllHardDropMs(seqPiece, config) ==
  LET actionTime == OrZero(config.thinkDurationMs)
                    + (RotateSteps(seqPiece.piece)
                       + MoveStepCount(seqPiece.steps)) * config.nudgeDurationMs
      totalDropDistance == seqPiece.piece.anchor[1] + config.fieldTopPaddingRows
  IN  actionTime
      + Max2(0, totalDropDistance) * OrZero(config.minHardDropDelayMs)
      + config.pieceDelayMs

\* a loop body of another kind: gravity and actions run side by side and the
\* piece takes the longer of the two
PieceDurationMaxMs(seqPiece, config) ==
  LET rowsDropped ==
        Max2(0, seqPiece.piece.anchor[1] + config.fieldTopPaddingRows)
      gravityTime == rowsDropped * config.hardDropDurationMs
      actionTime == (RotateSteps(seqPiece.piece)
                     + MoveStepCount(seqPiece.steps)) * config.nudgeDurationMs
  IN  Max2(gravityTime, actionTime) + config.pieceDelayMs

\* the body of the loop over the sequence: what one piece adds to total
PieceDurationMs(seqPiece, config) ==
  LET piece == seqPiece.piece
      thinkDuration == OrZero(config.thinkDurationMs)
      minHardDropDelay == OrZero(config.minHardDropDelayMs)
      rotateSteps == RotateSteps(piece)
      moveSteps == MoveStepCount(seqPiece.steps)
      totalActions == rotateSteps + moveSteps
      actionTime == thinkDuration + totalActions * config.nudgeDurationMs
      spawnRow == -config.fieldTopPaddingRows
      finalRow == piece.anchor[1]
      totalDropDistance == finalRow - spawnRow
      \* Math.floor(actionTime / hardDropDurationMs) for a positive divisor
      rowsDroppedByGravity ==
        IF config.hardDropDurationMs > 0
        THEN Min2(actionTime \div config.hardDropDurationMs, totalDropDistance)
        ELSE 0
      rowsToHardDrop == Max2(0, totalDropDistance - rowsDroppedByGravity)
      hardDropTime == rowsToHardDrop * minHardDropDelay
  IN  actionTime + hardDropTime + config.pieceDelayMs

RECURSIVE TotalFrom(_, _, _)
\* the loop over seqResult.sequence, from its k-th piece on
TotalFrom(seq, k, config) ==
  IF k > Len(seq) THEN 0
  ELSE PieceDurationMs(seq[k], config) + TotalFrom(seq, k + 1, config)

\* an estimate without the delay after the last piece
EstimateWithoutLastDelay(sr, config) ==
  IF ~sr.success THEN 0
  ELSE IF sr.sequence = <<>> THEN 0
  ELSE TotalFrom(sr.sequence, 1, config) - config.pieceDelayMs

\* estimateAnimationDurationMs
EstimateAnimationDurationMs(sr, config) ==
  IF ~sr.success THEN 0 ELSE TotalFrom(sr.sequence, 1, config)

\* the configurations the estimator is called with
EstimateConfigs ==
  {[fieldTopPaddingRows |-> p, nudgeDurationMs |-> n, rotateDurationMs |-> 30,
    hardDropDurationMs |-> h, pieceDelayMs |-> d, thinkDurationMs |-> t,
    minHardDropDelayMs |-> m] :
     p \in {0, 2}, n \in {1, 3}, h \in {0, 2, 5}, d \in {0, 7},
     t \in {{}, {4}}, m \in {{}, {0}, {1}}}

ConfigFields == {"fieldTopPaddingRows", "nudgeDurationMs", "rotateDurationMs",
                 "hardDropDurationMs", "pieceDelayMs", "thinkDurationMs",
                 "minHardDropDelayMs"}

\* the fields in which two configurations differ
Differing(a, b) == {f \in ConfigFields : a[f] # b[f]}

\* the configurations that differ from a in one field
VariationsOf(a) == {b \in EstimateConfigs : Cardinality(Differing(a, b)) = 1}

InitEstimate == InitSequencerOn(TileResultInputs(MaxEstimateCols))

\* the caller estimates the sequence it got under one configuration, and
\* again under a configuration with one value changed
EstimateTwice ==
  /\ pc = "done"
  /\ \E a \in EstimateConfigs : \E b \in VariationsOf(a) :
       estimates' =
         <<[config |-> a, ms |-> EstimateAnimationDurationMs(seqResult, a)],
           [config |-> b, ms |-> EstimateAnimationDurationMs(seqResult, b)]>>
  /\ pc' = "estimated"
  /\ UNCHANGED <<args, callNo, otherPlacements, firstResult, timeVars,
                 solverVars, result, seqVars, gridVars, clock>>

NextEstimate ==
  \/ Sequence
  \/ EstimateTwice

\* sequencePieces on every tiling of a few small grids, then two estimates
SpecEstimate == InitEstimate /\ [][NextEstimate]_vars

(***************************************************************************)
(* The browser page: TetrisClock, its timer, its settings menu and the     *)
(* display cycles it animates.  A task of the page (a timer tick, a click  *)
(* on a setting, the callback of an animation frame) runs to its end with  *)
(* the continuations it wakes; a display cycle is suspended only in        *)
(* nextFrame and in a delay longer than 0 ms, and is resumed by an         *)
(* animation frame.                                                        *)
(***************************************************************************)
\* the minutes the wall clock passes while the page is open
MaxMinute == 1
\* a countdown is opened this many minutes before its target date
CountdownMinutes == 1
\* the pieces of a sequence that a display cycle animates
NumClockPieces == 2
\* the settings changes made on the page
MaxChanges == 2
\* the display cycles started between two ticks of the timer
MaxStarts == 2

FlashCount == 4
MinSpeed == 1
MaxSpeed == 10
DefaultSpeed == 3

ClockModes == {"clock", "countdown"}
NoEvent == [event |-> "none", animating |-> FALSE, token |-> 0]

\* this.throwIfCancelled(token), and the same test in renderAt and in finally
IsCancelled(token, animationToken) == token # animationToken

\* a wait that never looks at the token
NeverRejects(token, animationToken) == FALSE

\* the callback of nextFrame and the tick of delay: they reject with
\* AnimationCancelled when the token is no longer the current one
RejectsOnResume(token, animationToken) == token # animationToken

\* an updateTime that does not look at isAnimating
NeverBusy(cl) == FALSE

\* updateTime's first statement: if (this.isAnimating) return
Busy(cl) == cl.isAnimating

\* tileTimeGrid and sequencePieces on a target time: the same call on the
\* same time and seed gives the same outcome, so the times that fail are
\* fixed when the page is opened.  "failed" is a result with success false,
\* "threw" a raised error (validateTime rejects the hours of a countdown of
\* a day and more).  In the clock branch the preview makes the same call
\* before the cycle starts, outside the try, so a cycle of that branch can
\* only meet "failed".
CycleOutcome(cl, branch, target) ==
  IF \E b \in cl.bad : b.branch = branch /\ b.target = target
  THEN (CHOOSE b \in cl.bad : b.branch = branch /\ b.target = target).outcome
  ELSE "ok"

BadTimes ==
  {{}}
    \cup {{[branch |-> "clock", target |-> 0, outcome |-> "failed"]}}
    \cup {{[branch |-> "countdown", target |-> CountdownMinutes,
             outcome |-> o]} : o \in {"failed", "threw"}}

\* the URL's mode and target date: a clock, a countdown, and a countdown
\* without a date, which shows the time of day
OpenedSettings ==
  {[mode |-> "clock", targetDate |-> {}],
   [mode |-> "countdown", targetDate |-> {CountdownMinutes}],
   [mode |-> "countdown", targetDate |-> {}]}

\* the TetrisClock after its field initialisers, with init() about to make
\* its first call of updateTime; mode, targetDate come from the URL
OpenedClocks ==
  {[call |-> "init", isAnimating |-> FALSE, animationToken |-> 0,
    mode |-> s.mode, targetDate |-> s.targetDate, speed |-> DefaultSpeed,
    currentTime |-> {}, countdownFinished |-> FALSE, now |-> 0,
    cycles |-> <<>>, display |-> {}, white |-> FALSE, lockedCells |-> {},
    colon |-> FALSE, bad |-> b, started |-> <<>>, last |-> NoEvent,
    stale |-> {}, changes |-> 0] :
     s \in OpenedSettings, b \in BadTimes}

InitClock ==
  /\ pc = "idle"
  /\ args = NoArgs
  /\ callNo = 1
  /\ otherPlacements = 0
  /\ pieceIdCounter = 0
  /\ grid = NoGrid
  /\ random = <<0, 0>>
  /\ state = NoState
  /\ stack = <<>>
  /\ ctl = "call"
  /\ result = NoResult
  /\ firstResult = NoResult
  /\ placedCells = {}
  /\ remainingPieces = <<>>
  /\ sequence = <<>>
  /\ seqResult = NoSeqResult
  /\ usedFallback = FALSE
  /\ lastOp = NoOp
  /\ before = [grid |-> NoGrid, pieceIdCounter |-> 0]
  /\ timeCall = NoTimeCall
  /\ parts = <<>>
  /\ timeResult = NoResult
  /\ estimates = <<>>
  /\ clock \in OpenedClocks

clockFrame == <<pc, args, callNo, otherPlacements, firstResult, timeVars,
                estimates, solverVars, result, seqVars, gridVars>>

\* clearGrid: lockedCells.clear(), hideColon(), every cell reset
ClearGrid(cl) ==
  [cl EXCEPT !.lockedCells = {}, !.colon = FALSE, !.display = {},
             !.white = FALSE]

\* cancelCurrentAnimation(true)
CancelCurrentAnimation(cl) ==
  ClearGrid([cl EXCEPT !.animationToken = @ + 1, !.isAnimating = FALSE])

\* history: a cycle writes to the page (a cell, the colon, lockedCells,
\* isAnimating); kept when the writer's token is no longer the current one
WrittenBy(cl, token, what) ==
  [cl EXCEPT !.stale = IF token # cl.animationToken THEN @ \cup {what}
                       ELSE @]

WithoutCycle(cl, k) ==
  [cl EXCEPT !.cycles = [j \in 1..(Len(@) - 1) |->
                           IF j < k THEN @[j] ELSE @[j + 1]]]

SetCycle(cl, k, c) == [cl EXCEPT !.cycles[k] = c]

\* the rows that hold a filled cell, bottom first (piece k fills row k)
SortedRows(display) ==
  LET n == Cardinality(display)
  IN  [j \in 1..n |->
         CHOOSE r \in display : Cardinality({q \in display : q > r}) = j - 1]

\* the end of updateTime after animateField returned or an error other
\* than AnimationCancelled was caught: the finally block
Finally(cl, k) ==
  IF IsCancelled(cl.cycles[k].token, cl.animationToken)
  THEN WithoutCycle(cl, k)
  ELSE [WrittenBy(WithoutCycle(cl, k), cl.cycles[k].token, "isAnimating")
          EXCEPT !.isAnimating = FALSE, !.call = "finally"]

\* animatePieceDrop of piece i from its entry to its first nextFrame
StartPiece(cl, k, i) ==
  IF IsCancelled(cl.cycles[k].token, cl.animationToken)
  THEN WithoutCycle(cl, k)
  ELSE SetCycle([WrittenBy(cl, cl.cycles[k].token, "cell")
                   EXCEPT !.display = @ \cup {i}], k,
                [cl.cycles[k] EXCEPT !.at = "frame", !.piece = i])

\* the end of animatePieceDrop (throwIfCancelled, renderAt, lockedCells.add)
\* and animateField's await of delay(PIECE_DELAY), which is never 0 ms
LockPiece(cl, k) ==
  LET c == cl.cycles[k]
  IN  IF IsCancelled(c.token, cl.animationToken)
      THEN WithoutCycle(cl, k)
      ELSE SetCycle([WrittenBy(WrittenBy(cl, c.token, "cell"), c.token,
                               "lockedCells")
                       EXCEPT !.display = @ \cup {c.piece},
                              !.lockedCells = @ \cup {c.piece}],
                    k, [c EXCEPT !.at = "gap"])

\* one more row of the hard drop: throwIfCancelled, renderAt, delay(FRAME_MS)
DropRow(cl, k) ==
  LET c == cl.cycles[k]
  IN  IF IsCancelled(c.token, cl.animationToken)
      THEN WithoutCycle(cl, k)
      ELSE SetCycle([WrittenBy(cl, c.token, "cell")
                       EXCEPT !.display = @ \cup {c.piece}], k,
                    [c EXCEPT !.at = "drop"])

\* one flash to white: throwIfCancelled, the write, delay(FLASH_DURATION)
FlashWhite(cl, k) ==
  LET c == cl.cycles[k]
  IN  IF IsCancelled(c.token, cl.animationToken)
      THEN WithoutCycle(cl, k)
      ELSE SetCycle([WrittenBy(cl, c.token, "cell") EXCEPT !.white = TRUE],
                    k, [c EXCEPT !.at = "white", !.flash = @ + 1])

\* the rows loop of clearRowsAnimation from the top of an iteration, and
\* after the last row lockedCells.clear() and the return to updateTime
ClearRows(cl, k) ==
  LET c == cl.cycles[k]
      stale == IsCancelled(c.token, cl.animationToken)
  IN  IF c.rows # <<>>
      THEN IF stale
           THEN WithoutCycle(cl, k)
           ELSE SetCycle([WrittenBy(cl, c.token, "cell")
                            EXCEPT !.display = @ \ {Head(c.rows)}], k,
                         [c EXCEPT !.at = "row", !.rows = Tail(@)])
      ELSE Finally([WrittenBy(cl, c.token, "lockedCells")
                      EXCEPT !.lockedCells = {}], k)

\* what a display cycle does when an animation frame resumes it, up to its
\* next wait or its end
Resumed(cl, k) ==
  LET c == cl.cycles[k]
      stale == IsCancelled(c.token, cl.animationToken)
  IN  IF RejectsOnResume(c.token, cl.animationToken)
      THEN {WithoutCycle(cl, k)}
      ELSE CASE c.at = "frame" ->
                  IF stale THEN {WithoutCycle(cl, k)}
                  ELSE {SetCycle([WrittenBy(cl, c.token, "cell")
                                    EXCEPT !.display = @ \cup {c.piece}],
                                 k, c),
                        DropRow(cl, k), LockPiece(cl, k)}
             [] c.at = "drop" -> {DropRow(cl, k), LockPiece(cl, k)}
             [] c.at = "gap" ->
                  IF stale THEN {WithoutCycle(cl, k)}
                  ELSE IF c.piece < NumClockPieces
                       THEN {StartPiece(cl, k, c.piece + 1)}
                       ELSE {SetCycle([WrittenBy(cl, c.token, "colon")
                                         EXCEPT !.colon = TRUE], k,
                                      [c EXCEPT !.at = "pause"])}
             [] c.at = "pause" ->
                  {FlashWhite(SetCycle(cl, k,
                     [c EXCEPT !.rows = SortedRows(cl.display)]), k)}
             [] c.at = "white" ->
                  {SetCycle([WrittenBy(cl, c.token, "cell")
                               EXCEPT !.white = FALSE],
                            k, [c EXCEPT !.at = "colour"])}
             [] c.at = "colour" ->
                  IF c.flash < FlashCount THEN {FlashWhite(cl, k)}
                  ELSE {ClearRows(cl, k)}
             [] c.at = "row" -> {ClearRows(cl, k)}

\* the target time updateTime computes: the minutes left of a countdown,
\* or the minute the animation of the current minute is estimated to end
\* in (a failed preview is estimated at 0 ms)
TargetTimes(cl) ==
  IF cl.mode = "countdown" /\ cl.targetDate # {}
  THEN LET left == (CHOOSE t \in cl.targetDate : TRUE) - cl.now
       IN  {[branch |-> "countdown", finished |-> left <= 0,
             target |-> IF left <= 0 THEN 0 ELSE left]}
  ELSE {[branch |-> "clock", finished |-> FALSE, target |-> t] :
          t \in IF CycleOutcome(cl, "clock", cl.now) = "ok"
                THEN {cl.now, cl.now + 1} ELSE {cl.now}}

\* updateTime from the test of the skip to its first wait or its end
BeginCycle(cl, tt) ==
  IF cl.mode # "countdown" /\ cl.currentTime = {tt.target}
  THEN [cl EXCEPT !.call = "none"]
  ELSE LET outcome == CycleOutcome(cl, tt.branch, tt.target)
           token == cl.animationToken
           began == [cl EXCEPT
                       !.isAnimating = TRUE,
                       !.currentTime = {tt.target},
                       !.started = Append(@,
                          [by |-> cl.call, mode |-> cl.mode,
                           speed |-> cl.speed, target |-> tt.target,
                           outcome |-> outcome, token |-> token])]
           k == Len(cl.cycles) + 1
           cycle == [token |-> token, mode |-> cl.mode, speed |-> cl.speed,
                     target |-> tt.target, at |-> "start", piece |-> 0,
                     flash |-> 0, rows |-> <<>>]
           entered == [began EXCEPT !.cycles = Append(@, cycle),
                                    !.call = "none"]
       IN  IF outcome = "ok"
           THEN StartPiece(ClearGrid(entered), k, 1)
           ELSE Finally(entered, k)

UpdateTimeResults(cl) ==
  IF Busy(cl) \/ cl.countdownFinished
  THEN {[cl EXCEPT !.call = "none"]}
  ELSE {BeginCycle([cl EXCEPT !.countdownFinished = tt.finished], tt) :
          tt \in TargetTimes(cl)}

\* one call of updateTime, made by init, by the timer, by a settings
\* handler or by the finally block of the cycle that just ended
UpdateTime ==
  /\ clock.call \notin {"closed", "none"}
  /\ \E next \in UpdateTimeResults(clock) :
       /\ Len(next.started) <= MaxStarts
       /\ clock' = next
  /\ UNCHANGED clockFrame

\* setInterval(() => this.updateTime(), 1000), the wall clock moving on
TimerTick ==
  /\ clock.call = "none"
  /\ \E minutes \in 0..1 :
       /\ clock.now + minutes <= MaxMinute
       /\ clock' = [clock EXCEPT !.now = @ + minutes, !.call = "tick",
                                 !.started = <<>>, !.last = NoEvent]
  /\ UNCHANGED clockFrame

\* a click on a mode button
SetMode ==
  /\ clock.call = "none"
  /\ clock.changes < MaxChanges
  /\ \E mode \in ClockModes :
       /\ clock.mode # mode
       /\ clock' =
            [CancelCurrentAnimation(clock) EXCEPT
               !.mode = mode,
               !.targetDate = IF mode = "countdown"
                              THEN {clock.now + CountdownMinutes} ELSE {},
               !.countdownFinished = FALSE,
               !.currentTime = {},
               !.call = "setMode",
               !.changes = @ + 1,
               !.last = [event |-> "setMode",
                         animating |-> clock.isAnimating,
                         token |-> clock.animationToken]]
  /\ UNCHANGED clockFrame

\* a click on a speed button
ChangeSpeed ==
  /\ clock.call = "none"
  /\ clock.changes < MaxChanges
  /\ \E delta \in {-1, 1} :
       LET newSpeed == Max2(MinSpeed, Min2(MaxSpeed, clock.speed + delta))
       IN  /\ newSpeed # clock.speed
           /\ clock' = [clock EXCEPT
                          !.speed = newSpeed,
                          !.currentTime = {},
                          !.call = "changeSpeed",
                          !.changes = @ + 1,
                          !.last = [event |-> "changeSpeed",
                                    animating |-> clock.isAnimating,
                                    token |-> clock.animationToken]]
  /\ UNCHANGED clockFrame

\* a delay whose time has not passed at this frame asks for the next one
StillWaiting(cl, k) ==
  IF /\ cl.cycles[k].at # "frame"
     /\ ~RejectsOnResume(cl.cycles[k].token, cl.animationToken)
  THEN {cl} ELSE {}

\* the callbacks of one animation frame: every waiting cycle, oldest
\* first, from cycle k on
RECURSIVE FrameResults(_, _)
FrameResults(cl, k) ==
  IF k > Len(cl.cycles) THEN {cl}
  ELSE UNION {FrameResults(next, IF Len(next.cycles) < Len(cl.cycles)
                                 THEN k ELSE k + 1) :
                next \in Resumed(cl, k) \cup StillWaiting(cl, k)}

\* an animation frame: requestAnimationFrame runs the callback of every
\* cycle that waits in nextFrame or in a delay
AnimationFrame ==
  /\ clock.call = "none"
  /\ clock.cycles # <<>>
  /\ \E next \in FrameResults(clock, 1) :
       clock' = [next EXCEPT !.last = NoEvent]
  /\ UNCHANGED clockFrame

NextClock ==
  \/ UpdateTime
  \/ TimerTick
  \/ SetMode
  \/ ChangeSpeed
  \/ AnimationFrame

\* the page from its opening on: timer ticks, settings changes and
\* animation frames in any order
SpecClock == InitClock /\ [][NextClock]_vars

(***************************************************************************)
(* Properties.                                                             *)
(***************************************************************************)
Returned == pc \in {"tiled", "seq", "done"}
AllCells(rows, cols) == (0..(rows - 1)) \X (0..(cols - 1))
MaskOf(cell) == CellAt(args.mask, cell[1], cell[2])
Abs(n) == IF n < 0 THEN -n ELSE n
Adjacent(a, b) == Abs(a[1] - b[1]) + Abs(a[2] - b[2]) = 1

\* the pieces of a TileResult that have a given id
PiecesWithId(res, id) == {k \in DOMAIN res.pieces : res.pieces[k].id = id}

ExactCover(res, rows, cols) ==
  /\ Len(res.grid) = rows
  /\ \A r \in DOMAIN res.grid : Len(res.grid[r]) = cols
  /\ \A cell \in AllCells(rows, cols) :
       LET owners == PiecesWithId(res, GridRef(res.grid, cell[1], cell[2]))
       IN  /\ Cardinality(owners) = 1
           /\ \A k \in owners : cell \in CellSet(res.pieces[k])
  /\ \A j, k \in DOMAIN res.pieces :
       /\ Cardinality(CellSet(res.pieces[k])) = 4
       /\ j # k => CellSet(res.pieces[j]) \cap CellSet(res.pieces[k]) = {}
  /\ Len(res.pieces) * 4 = rows * cols

\* C1: whenever tileGrid returns success the result is an exact cover: each
\* cell of the rows x cols grid references exactly one piece of the pieces
\* list, whose 4 cells contain it, no two pieces share a cell, and there are
\* rows*cols/4 pieces.
C1_ExactCover ==
  (Returned /\ result.success) => ExactCover(result, args.rows, args.cols)

C1_Witness ==
  /\ pc = "tiled" /\ result.success
  /\ Len(result.pieces) = 4
  /\ result.stats.backtracks > 0

\* C2: in every returned tiling the 4 cells of each piece have one mask value
\* and isLit is that value; so 4 times the number of lit (unlit) pieces is
\* the number of lit (unlit) mask cells.
C2_MaskRespect ==
  Returned =>
    /\ \A k \in DOMAIN result.pieces :
         \A cell \in CellSet(result.pieces[k]) :
           MaskOf(cell) = result.pieces[k].isLit
    /\ result.success =>
         \A lit \in BOOLEAN :
           4 * Cardinality({k \in DOMAIN result.pieces :
                              result.pieces[k].isLit = lit})
             = Cardinality({cell \in AllCells(args.rows, args.cols) :
                              MaskOf(cell) = lit})

C2_Witness ==
  /\ pc = "tiled" /\ result.success
  /\ \E j, k \in DOMAIN result.pieces :
       result.pieces[j].isLit /\ ~result.pieces[k].isLit

\* C3: a tiling call repeated with the same rows, cols, mask, seed and
\* maxAttempts returns the same pieces in the same order (type, rotation
\* index, anchor, cells, identity), whatever Grid operations ran before
\* either call.
C3_Deterministic ==
  (Returned /\ callNo > 1) =>
    /\ result.success = firstResult.success
    /\ result.pieces = firstResult.pieces
    /\ result.grid = firstResult.grid

C3_Witness ==
  /\ pc = "tiled" /\ callNo > 1 /\ otherPlacements > 0
  /\ result.success /\ Len(result.pieces) > 1
  /\ result.pieces = firstResult.pieces

\* whether 4 cells hang together edge to edge (that is, form a tetromino)
Connected4(P) ==
  LET c == CHOOSE x \in P : TRUE
      r1 == {c} \cup {y \in P : Adjacent(c, y)}
      r2 == r1 \cup {y \in P : \E x \in r1 : Adjacent(x, y)}
      r3 == r2 \cup {y \in P : \E x \in r2 : Adjacent(x, y)}
  IN  r3 = P

RECURSIVE CanPartition(_)
\* whether the cell set S splits into tetrominoes that each lie in one mask
\* region: some cell of S must lie in one of them
CanPartition(S) ==
  \/ S = {}
  \/ LET c == CHOOSE x \in S : TRUE
         near == {y \in S \ {c} :
                    /\ Abs(y[1] - c[1]) + Abs(y[2] - c[2]) <= 3
                    /\ MaskOf(y) = MaskOf(c)}
     IN  \E T \in SUBSET near :
           /\ Cardinality(T) = 3
           /\ Connected4(T \cup {c})
           /\ CanPartition(S \ (T \cup {c}))

Tileable == CanPartition(AllCells(args.rows, args.cols))

\* C4: the search is complete whatever the attempt order: if a tiling by
\* tetrominoes that each lie within one mask region exists and the attempt
\* budget is not reached, tileGrid returns success; if none exists it returns
\* failure.
C4_Complete ==
  pc = "tiled" =>
    /\ ~Tileable => ~result.success
    /\ (Tileable /\ result.stats.attempts < state.maxAttempts) => result.success

C4_Witness ==
  /\ pc = "tiled" /\ Tileable /\ result.success
  /\ result.stats.attempts < state.maxAttempts
  /\ result.stats.backtracks > 0
  /\ \E k \in DOMAIN result.pieces : result.pieces[k].rotationIndex > 0

\* C5: for every digit 0-9 and seed, tileDigit with the default attempt
\* budget returns success with exactly 15 pieces (60 cells / 4).
C5_DigitsTile ==
  (pc = "tiled" /\ args.entry = "tileDigit" /\ args.maxAttempts = {}) =>
    /\ result.success
    /\ 4 * Len(result.pieces) = DIGIT_ROWS * DIGIT_COLS

C5_Witness ==
  /\ pc = "tiled" /\ args.entry = "tileDigit" /\ args.digit = 8
  /\ result.success /\ result.stats.backtracks > 0

\* the cells of the sequence entries before position i
PlacedBefore(seq, i) == UNION {CellSet(seq[j].piece) : j \in 1..(i - 1)}

\* the lowest cell of a piece in each column it occupies
LowestCells(piece) ==
  {cell \in CellSet(piece) :
     \A other \in CellSet(piece) : other[2] = cell[2] => other[1] <= cell[1]}

\* C6: replaying a successful sequence in order, every piece at its own
\* placement is supported: in each column it occupies its lowest cell is in
\* the bottom row or right above a cell of an earlier piece.
C6_Supported ==
  (pc = "done" /\ seqResult.success) =>
    \A i \in DOMAIN seqResult.sequence :
      \A cell \in LowestCells(seqResult.sequence[i].piece) :
        \/ cell[1] = seqResult.rows - 1
        \/ <<cell[1] + 1, cell[2]>> \in PlacedBefore(seqResult.sequence, i)

C6_Witness ==
  /\ pc = "done" /\ seqResult.success
  /\ \E i \in DOMAIN seqResult.sequence :
       \E cell \in LowestCells(seqResult.sequence[i].piece) :
         /\ cell[1] < seqResult.rows - 1
         /\ <<cell[1] + 1, cell[2]>> \in PlacedBefore(seqResult.sequence, i)

\* the position in the sequence of the piece covering a cell
PositionOf(seq, cell) ==
  CHOOSE i \in DOMAIN seq : cell \in CellSet(seq[i].piece)

\* C7: in a successful sequence, a piece with a cell right above a cell of
\* another piece has the larger order index.
C7_GravityOrder ==
  (pc = "done" /\ seqResult.success) =>
    \A a, b \in DOMAIN seqResult.sequence :
      (/\ a # b
       /\ \E cell \in CellSet(seqResult.sequence[a].piece) :
            <<cell[1] + 1, cell[2]>> \in CellSet(seqResult.sequence[b].piece))
      => seqResult.sequence[b].order < seqResult.sequence[a].order

C7_Witness ==
  /\ pc = "done" /\ seqResult.success
  /\ \E a, b \in DOMAIN seqResult.sequence :
       /\ a # b
       /\ \E cell \in CellSet(seqResult.sequence[a].piece) :
            <<cell[1] + 1, cell[2]>> \in CellSet(seqResult.sequence[b].piece)
       /\ seqResult.sequence[b].order < seqResult.sequence[a].order

\* C8: in a successful sequence the vertical drop path of each piece is free
\* when it is placed: no cell above one of its cells, in the same column,
\* belongs to an earlier piece.
C8_DropPathFree ==
  (pc = "done" /\ seqResult.success) =>
    \A i \in DOMAIN seqResult.sequence :
      \A cell \in CellSet(seqResult.sequence[i].piece) :
        \A above \in PlacedBefore(seqResult.sequence, i) :
          ~(above[2] = cell[2] /\ above[1] < cell[1])

C8_Witness ==
  /\ pc = "done" /\ seqResult.success
  /\ \E i \in DOMAIN seqResult.sequence :
       /\ i > 1
       /\ \E cell \in CellSet(seqResult.sequence[i].piece) :
            \E below \in PlacedBefore(seqResult.sequence, i) :
              below[2] = cell[2] /\ below[1] > cell[1]

\* C9 as stated: every successful TileResult of the solver is sequenced with
\* success, the greedy loop never stalling.
C9_AlwaysSequenced ==
  (pc = "done" /\ result.success) => (seqResult.success /\ ~usedFallback)

\* C9, amended: every successful TileResult of the solver that has at least
\* one piece is sequenced with success; at every iteration of the greedy loop
\* some remaining piece is supported with a clear drop path, so the loop
\* never stalls and the fallback never runs.
C9_NonEmptySequenced ==
  /\ (pc = "seq" /\ remainingPieces # <<>>) => SupportedPieces # <<>>
  /\ (pc = "done" /\ result.success /\ Len(result.pieces) > 0) =>
       (seqResult.success /\ ~usedFallback)

C9_Witness ==
  /\ pc = "done" /\ result.success /\ Len(result.pieces) > 3
  /\ seqResult.success /\ ~usedFallback
  /\ \E i \in DOMAIN seqResult.sequence :
       seqResult.sequence[i].piece # result.pieces[i]

\* C10: a successful sequence is a permutation of the tiling's pieces: each
\* piece appears exactly once, the lengths agree, entry i has order i,
\* dropColumn is the anchor column, rows/cols are the grid dimensions.
C10_Permutation ==
  (pc = "done" /\ seqResult.success) =>
    /\ Len(seqResult.sequence) = Len(result.pieces)
    /\ \A k \in DOMAIN result.pieces :
         Cardinality({i \in DOMAIN seqResult.sequence :
                        seqResult.sequence[i].piece = result.pieces[k]}) = 1
    /\ \A i \in DOMAIN seqResult.sequence :
         /\ seqResult.sequence[i].order = i - 1
         /\ seqResult.sequence[i].dropColumn
              = seqResult.sequence[i].piece.anchor[2]
    /\ seqResult.rows = args.rows
    /\ seqResult.cols = args.cols

C10_Witness ==
  /\ pc = "done" /\ seqResult.success
  /\ Len(seqResult.sequence) > 3
  /\ args.rows # args.cols
  /\ \E i \in DOMAIN seqResult.sequence :
       seqResult.sequence[i].piece # result.pieces[i]

\* the actions of a step list, from position a to position b
ActionsAre(steps, a, b, action) ==
  \A k \in a..b : steps[k].action = action

\* spawn, r rotate steps, m move steps, d drop steps, lock
HasShape(steps, r, m, d) ==
  /\ Len(steps) = r + m + d + 2
  /\ steps[1].action = "spawn"
  /\ ActionsAre(steps, 2, r + 1, "rotate")
  /\ ActionsAre(steps, r + 2, r + m + 1, "move")
  /\ ActionsAre(steps, r + m + 2, r + m + d + 1, "drop")
  /\ steps[r + m + d + 2].action = "lock"
  /\ \A k \in (r + m + 2)..(r + m + d) : steps[k + 1].row = steps[k].row + 1

\* the step list of a sequence entry is well shaped
StepShape(entry) ==
  \E m \in 0..Len(entry.steps) : \E d \in 1..Len(entry.steps) :
    /\ HasShape(entry.steps, entry.piece.rotationIndex, m, d)
    /\ entry.steps[Len(entry.steps) - 1].action = "drop"
    /\ entry.steps[Len(entry.steps) - 1].row = entry.piece.anchor[1]

\* C11: every piece's step list is spawn, rotate*, move*, drop+, lock, with
\* as many rotate steps as the rotation index, drop rows that increase by
\* exactly 1, and the last drop row equal to the piece's anchor row.
C11_StepShape ==
  /\ \A i \in DOMAIN sequence : StepShape(sequence[i])
  /\ \A i \in DOMAIN seqResult.sequence : StepShape(seqResult.sequence[i])

C11_Witness ==
  /\ pc = "done" /\ seqResult.success
  /\ \E i \in DOMAIN seqResult.sequence :
       LET steps == seqResult.sequence[i].steps
       IN  /\ seqResult.sequence[i].piece.rotationIndex = 3
           /\ \E k \in DOMAIN steps :
                steps[k].action = "move" /\ steps[k].direction = "left"
           /\ \E k \in DOMAIN steps :
                steps[k].action = "drop" /\ steps[k].row > 0

\* C12: in a successful sequence the first piece has at least one cell in
\* the grid's bottom row.
C12_FirstAtFloor ==
  (pc = "done" /\ seqResult.success) =>
    \E cell \in CellSet(seqResult.sequence[1].piece) :
      cell[1] = seqResult.rows - 1

C12_Witness ==
  /\ pc = "done" /\ seqResult.success
  /\ seqResult.sequence[1].piece # result.pieces[1]
  /\ \E cell \in CellSet(seqResult.sequence[1].piece) :
       cell[1] = seqResult.rows - 1
  /\ \E cell \in CellSet(seqResult.sequence[1].piece) :
       cell[1] < seqResult.rows - 1

\* C13: for a TileResult with success = false or without pieces,
\* sequencePieces returns success = false with an empty sequence at once: no
\* piece is ever committed and the fallback is not tried.
C13_FailurePropagates ==
  (pc \in {"seq", "done"} /\ (~result.success \/ Len(result.pieces) = 0)) =>
    /\ pc = "done"
    /\ ~seqResult.success
    /\ seqResult.sequence = <<>>
    /\ sequence = <<>> /\ placedCells = {} /\ remainingPieces = <<>>
    /\ ~usedFallback

C13_Witness ==
  /\ pc = "done" /\ ~result.success /\ Len(result.pieces) > 3
  /\ ~seqResult.success /\ seqResult.sequence = <<>>

\* the absolute cells of a placement, as a set
TargetCells(type, rotationIndex, anchor) ==
  {<<anchor[1] + off[1], anchor[2] + off[2]>> :
     off \in Range(Rotation(type, rotationIndex))}

\* all target cells in the grid, none occupied, one mask value
Placeable(g, type, rotationIndex, anchor) ==
  LET target == TargetCells(type, rotationIndex, anchor)
  IN  /\ target \subseteq AllCells(g.rows, g.cols)
      /\ \A cell \in target : g.cells[cell[1] + 1][cell[2] + 1] = 0
      /\ \A c, d \in target :
           g.mask[c[1] + 1][c[2] + 1] = g.mask[d[1] + 1][d[2] + 1]

\* C14: canPlace returns true exactly when the 4 absolute cells lie in the
\* grid, none is occupied and all have one mask value; it changes neither
\* the grid nor the identity counter.
C14_CanPlace ==
  lastOp.op = "canPlace" =>
    /\ lastOp.bool = Placeable(before.grid, lastOp.type, lastOp.rotationIndex,
                               lastOp.anchor)
    /\ grid = before.grid
    /\ pieceIdCounter = before.pieceIdCounter

C14_Witness ==
  /\ lastOp.op = "canPlace" /\ ~lastOp.bool
  /\ Len(grid.placedPieces) > 0
  /\ LET target == TargetCells(lastOp.type, lastOp.rotationIndex,
                               lastOp.anchor)
     IN  /\ target \subseteq AllCells(grid.rows, grid.cols)
         /\ \A cell \in target : grid.cells[cell[1] + 1][cell[2] + 1] = 0

\* C15: place throws exactly when canPlace is false for its arguments, remove
\* throws exactly when the identity is not registered, and a call that throws
\* leaves the occupancy table, the registered pieces and the identity counter
\* as they were.
C15_ThrowsUnchanged ==
  /\ lastOp.op = "place" =>
       lastOp.threw = ~Placeable(before.grid, lastOp.type,
                                 lastOp.rotationIndex, lastOp.anchor)
  /\ lastOp.op = "remove" =>
       lastOp.threw = (\A k \in DOMAIN before.grid.placedPieces :
                         before.grid.placedPieces[k].id # lastOp.pieceId)
  /\ (lastOp.op \in {"place", "remove"} /\ lastOp.threw) =>
       /\ grid = before.grid
       /\ pieceIdCounter = before.pieceIdCounter

C15_Witness ==
  /\ lastOp.op = "place" /\ lastOp.threw
  /\ Len(grid.placedPieces) > 1
  /\ TargetCells(lastOp.type, lastOp.rotationIndex, lastOp.anchor)
       \subseteq AllCells(grid.rows, grid.cols)
  /\ \E cell \in TargetCells(lastOp.type, lastOp.rotationIndex,
                             lastOp.anchor) :
       grid.cells[cell[1] + 1][cell[2] + 1] # 0

\* the Grid's registered pieces and its occupancy table agree
GridConsistent(g) ==
  /\ \A k \in DOMAIN g.placedPieces :
       /\ CellSet(g.placedPieces[k]) \subseteq AllCells(g.rows, g.cols)
       /\ Cardinality(CellSet(g.placedPieces[k])) = 4
       /\ \A c, d \in CellSet(g.placedPieces[k]) :
            g.mask[c[1] + 1][c[2] + 1] = g.mask[d[1] + 1][d[2] + 1]
  /\ \A j, k \in DOMAIN g.placedPieces :
       j # k => /\ CellSet(g.placedPieces[j]) \cap CellSet(g.placedPieces[k]) = {}
                /\ g.placedPieces[j].id # g.placedPieces[k].id
  /\ \A cell \in AllCells(g.rows, g.cols) : \A id \in 1..(MaxPieceIds + 1) :
       (g.cells[cell[1] + 1][cell[2] + 1] = id)
         <=> (\E k \in DOMAIN g.placedPieces :
                g.placedPieces[k].id = id /\ cell \in CellSet(g.placedPieces[k]))
  /\ Cardinality({cell \in AllCells(g.rows, g.cols) :
                    g.cells[cell[1] + 1][cell[2] + 1] # 0})
       = 4 * Len(g.placedPieces)

\* C16: after any sequence of place and remove operations every registered
\* piece has 4 cells in the grid with one mask value, no two registered
\* pieces share a cell, and a cell references a piece exactly when the piece
\* is registered and the cell is one of its cells.
C16_GridConsistent ==
  (\/ pc = "grid"
   \/ lastOp.op \in {"place", "remove", "placeRemove"} /\ ~lastOp.threw)
    => GridConsistent(grid)

C16_Witness ==
  /\ lastOp.op = "remove" /\ ~lastOp.threw
  /\ Len(grid.placedPieces) > 1
  /\ \E k \in DOMAIN grid.placedPieces : grid.placedPieces[k].isLit
  /\ \E k \in DOMAIN grid.placedPieces : ~grid.placedPieces[k].isLit

\* C17: a successful place followed by remove of the returned identity
\* restores the occupancy table and the registered pieces to what they were
\* before the place.
C17_PlaceRemoveInverse ==
  lastOp.op = "placeRemove" =>
    /\ grid.cells = before.grid.cells
    /\ grid.placedPieces = before.grid.placedPieces
    /\ grid = before.grid

C17_Witness ==
  /\ lastOp.op = "placeRemove"
  /\ Len(grid.placedPieces) > 1
  /\ grid.placedPieces = before.grid.placedPieces

\* the unoccupied cells of a Grid
EmptyCells(g) ==
  {cell \in AllCells(g.rows, g.cols) : g.cells[cell[1] + 1][cell[2] + 1] = 0}

\* C18: findFirstEmpty returns the unoccupied cell first in row-major order,
\* or none when there is none; isFull is true exactly when there is none.
C18_FirstEmpty ==
  /\ lastOp.op = "findFirstEmpty" =>
       IF EmptyCells(grid) = {} THEN lastOp.cell = NoCell
       ELSE /\ lastOp.cell \in EmptyCells(grid)
            /\ \A other \in EmptyCells(grid) :
                 \/ lastOp.cell[1] < other[1]
                 \/ lastOp.cell[1] = other[1] /\ lastOp.cell[2] <= other[2]
  /\ lastOp.op = "isFull" =>
       /\ lastOp.bool = (EmptyCells(grid) = {})
       /\ lastOp.bool = (FindFirstEmpty(grid) = NoCell)

C18_Witness ==
  /\ lastOp.op = "findFirstEmpty"
  /\ lastOp.cell # NoCell /\ lastOp.cell[2] > 0
  /\ \E cell \in EmptyCells(grid) :
       cell[2] < lastOp.cell[2] /\ cell[1] > lastOp.cell[1]

\* x is an integer in lo..hi
IntegerIn(x, lo, hi) ==
  /\ x.kind = "finite"
  /\ \E n \in lo..hi : x.twice = n + n

\* the call was made with a digit outside 0..9, hours outside 0..23 or
\* minutes outside 0..59
BadArguments ==
  \/ /\ timeCall.entry = "tileDigit"
     /\ ~IntegerIn(timeCall.digit, 0, 9)
  \/ /\ timeCall.entry \in {"tileTime", "tileTimeGrid"}
     /\ \/ ~IntegerIn(timeCall.hours, 0, 23)
        \/ ~IntegerIn(timeCall.minutes, 0, 59)

\* no Grid was built, no generator seeded, no placement tried, no tiling
\* call made
NothingBuilt ==
  /\ grid = NoGrid /\ state = NoState /\ stack = <<>> /\ random = <<0, 0>>
  /\ pieceIdCounter = 0 /\ args = NoArgs /\ result = NoResult
  /\ parts = <<>> /\ timeResult = NoResult

\* C19: tileDigit called with a digit that is not an integer in 0..9, and
\* tileTime and tileTimeGrid called with hours that are not an integer in
\* 0..23 or minutes that are not an integer in 0..59, throw; when they throw
\* no Grid has been built and no placement tried, and the call never goes on
\* with some value in range instead
C19_InvalidThrows ==
  (pc # "start" /\ BadArguments) => (pc = "threw" /\ NothingBuilt)

C19_Witness ==
  /\ pc = "threw"
  /\ timeCall.entry = "tileTimeGrid"
  /\ timeCall.hours = JsInt(23)
  /\ timeCall.minutes = JsInt(60)

DefaultGaps == timeCall.digitGapCols = {} /\ timeCall.colonGapCols = {}

\* the piece of a pieces list a cell's reference stands for
Referenced(pieces, id) ==
  pieces[CHOOSE k \in 1..Len(pieces) : pieces[k].id = id]

\* C20: a successful tileTimeGrid result with the default gaps has a 10 x 32
\* grid with every cell covered and 80 pieces with pairwise distinct
\* identities; every cell references a piece of the list whose cells contain
\* it, and that piece is the piece its part's tiling had there, moved right
\* by the part's column offset
C20_UnifiedGrid ==
  (/\ pc = "returned" /\ timeCall.entry = "tileTimeGrid"
   /\ DefaultGaps /\ timeResult.success) =>
    LET g  == timeResult.grid
        ps == timeResult.pieces
        partList == TileTimeGridParts(timeCall)
    IN  /\ Len(g) = 10
        /\ \A r \in 1..10 : Len(g[r]) = 32
        /\ \A r \in 1..10 : \A c \in 1..32 : g[r][c] # 0
        /\ Len(ps) = 80
        /\ \A i \in 1..Len(ps) : \A j \in 1..Len(ps) :
             i # j => ps[i].id # ps[j].id
        /\ \A r \in 1..10 : \A c \in 1..32 :
             \E k \in 1..Len(ps) :
               /\ ps[k].id = g[r][c]
               /\ <<r - 1, c - 1>> \in CellSet(ps[k])
        /\ \A p \in 1..Len(parts) :
             \A r \in 1..10 : \A c \in 1..partList[p].cols :
               LET sub == Referenced(parts[p].pieces, parts[p].grid[r][c])
                   uni == Referenced(ps, g[r][c + partList[p].colOffset])
               IN  /\ uni.type = sub.type
                   /\ CellSet(uni) = {<<cell[1], cell[2] + partList[p].colOffset>> :
                                        cell \in CellSet(sub)}

C20_Witness ==
  /\ pc = "returned" /\ timeCall.entry = "tileTimeGrid"
  /\ DefaultGaps /\ timeResult.success
  /\ timeCall.hours = JsInt(12) /\ timeCall.minutes = JsInt(34)
  /\ Len(timeResult.pieces) = 80

\* tileTimeGrid has returned
TimeGridReturned == pc = "returned" /\ timeCall.entry = "tileTimeGrid"

\* some cell of a grid of rows holds no piece
SomeCellNull(g) == \E r \in 1..Len(g) : \E c \in 1..Len(g[r]) : g[r][c] = 0

\* C21: tileTimeGrid is all-or-nothing: when one of its seven regions failed
\* to tile, or a cell of the grid it returns is uncovered, the result is a
\* failure with an empty pieces list; a success has all seven regions tiled
\* and every cell of the unified grid (10 rows of totalCols) covered
C21_AllOrNothing ==
  TimeGridReturned =>
    /\ Len(parts) = 7
    /\ ((\E p \in 1..7 : ~parts[p].success) \/ SomeCellNull(timeResult.grid))
         => (~timeResult.success /\ timeResult.pieces = <<>>)
    /\ timeResult.success =>
         /\ Len(timeResult.grid) = DIGIT_ROWS
         /\ \A r \in 1..DIGIT_ROWS :
              Len(timeResult.grid[r]) = TotalCols(timeCall)
         /\ ~SomeCellNull(timeResult.grid)

\* four digits failed while the three gaps were tiled
C21_Witness ==
  /\ TimeGridReturned
  /\ ~timeResult.success /\ timeResult.pieces = <<>>
  /\ \E p \in 1..7 : parts[p].success /\ parts[p].pieces # <<>>
  /\ \E p \in 1..7 : ~parts[p].success

\* the number of steps of a sequenced piece with a given action
StepCount(seqPiece, action) ==
  Cardinality({k \in DOMAIN seqPiece.steps :
                 seqPiece.steps[k].action = action})

\* thinkDurationMs + (rotate count + number of move steps) * nudgeDurationMs
ActionTime(seqPiece, config) ==
  (IF config.thinkDurationMs = {} THEN 0
   ELSE CHOOSE n \in config.thinkDurationMs : TRUE)
  + (StepCount(seqPiece, "rotate") + StepCount(seqPiece, "move"))
    * config.nudgeDurationMs

\* anchor.row + fieldTopPaddingRows
TotalFall(seqPiece, config) ==
  seqPiece.piece.anchor[1] + config.fieldTopPaddingRows

\* min(floor(actionTime / hardDropDurationMs), total fall), 0 when
\* hardDropDurationMs <= 0
FallenByGravity(seqPiece, config) ==
  IF config.hardDropDurationMs <= 0 THEN 0
  ELSE LET whole == CHOOSE q \in 0..ActionTime(seqPiece, config) :
                      /\ q * config.hardDropDurationMs
                           <= ActionTime(seqPiece, config)
                      /\ (q + 1) * config.hardDropDurationMs
                           > ActionTime(seqPiece, config)
       IN  IF whole <= TotalFall(seqPiece, config) THEN whole
           ELSE TotalFall(seqPiece, config)

\* max(0, total fall - rows fallen by gravity)
RowsToHardDrop(seqPiece, config) ==
  IF TotalFall(seqPiece, config) - FallenByGravity(seqPiece, config) > 0
  THEN TotalFall(seqPiece, config) - FallenByGravity(seqPiece, config)
  ELSE 0

RECURSIVE SumOverPieces(_, _, _)
\* the sum over the pieces from the k-th on of
\* actionTime + rowsToHardDrop * minHardDropDelayMs + pieceDelayMs
SumOverPieces(seq, k, config) ==
  IF k > Len(seq) THEN 0
  ELSE ActionTime(seq[k], config)
       + RowsToHardDrop(seq[k], config)
         * (IF config.minHardDropDelayMs = {} THEN 0
            ELSE CHOOSE n \in config.minHardDropDelayMs : TRUE)
       + config.pieceDelayMs
       + SumOverPieces(seq, k + 1, config)

DifferOnlyIn(f) ==
  Differing(estimates[1].config, estimates[2].config) = {f}

\* C23: with every other configuration value fixed, raising pieceDelayMs by
\* D raises the estimate of a successful sequence by D times the number of
\* its pieces: the delay is counted once per piece, the last one included
C23_DelayLinear ==
  (pc = "estimated" /\ seqResult.success /\ DifferOnlyIn("pieceDelayMs")) =>
    estimates[2].ms - estimates[1].ms
      = (estimates[2].config.pieceDelayMs - estimates[1].config.pieceDelayMs)
        * Len(seqResult.sequence)

C23_Witness ==
  /\ pc = "estimated" /\ seqResult.success /\ DifferOnlyIn("pieceDelayMs")
  /\ Len(seqResult.sequence) = 3
  /\ estimates[2].config.pieceDelayMs = estimates[1].config.pieceDelayMs + 7
  /\ estimates[2].ms = estimates[1].ms + 21

\* minHardDropDelayMs is 0 or omitted
InstantHardDrop(config) == config.minHardDropDelayMs \in {{}, {0}}

WellFormedDigitMask(mask) ==
  /\ Len(mask) = 10
  /\ \A r \in 1..Len(mask) : Len(mask[r]) = 6
  /\ CountLitCells(mask) % 4 = 0
  /\ CountUnlitCells(mask) % 4 = 0
  /\ CountLitCells(mask) + CountUnlitCells(mask) = 60

\* C25: each of the ten digit masks is 10 rows by 6 columns, its lit count
\* and its unlit count are divisible by 4 and sum to 60; so is the mask every
\* tileDigit call hands to tileGrid and the one the Grid is built with
C25_DigitMasks ==
  /\ DOMAIN DIGIT_PATTERNS = 1..10
  /\ \A digit \in 0..9 : WellFormedDigitMask(DigitPattern(digit))
  /\ args.entry = "tileDigit" =>
       /\ args.mask = DigitPattern(args.digit)
       /\ WellFormedDigitMask(args.mask)
       /\ pc # "idle" => WellFormedDigitMask(grid.mask)

\* digit 1: 20 lit cells, 40 unlit
C25_Witness ==
  /\ pc = "tiled" /\ args.entry = "tileDigit" /\ args.digit = 1
  /\ CountLitCells(grid.mask) = 20
  /\ CountUnlitCells(grid.mask) = 40

\* the rotation-state counts the catalog is to have
StateCounts == [I |-> 2, O |-> 1, T |-> 4, S |-> 2, Z |-> 2, J |-> 4, L |-> 4]

\* a rotation state of 4 pairwise distinct cells with non-negative offsets,
\* the smallest row offset and the smallest column offset both 0
WellFormedState(rot) ==
  /\ Len(rot) = 4
  /\ Cardinality(Range(rot)) = 4
  /\ \A k \in 1..Len(rot) : rot[k][1] >= 0 /\ rot[k][2] >= 0
  /\ \E k \in 1..Len(rot) : rot[k][1] = 0
  /\ \E k \in 1..Len(rot) : rot[k][2] = 0

\* C26: the catalog has exactly the 7 types I, O, T, S, Z, J, L with 2, 1, 4,
\* 2, 2, 4, 4 rotation states; every state has 4 pairwise distinct cells with
\* non-negative offsets whose minimum row and minimum column are 0; the
\* states of one type are pairwise distinct cell sets; and every piece on the
\* solver's Grid is one of these states moved to its anchor
C26_Catalog ==
  /\ DOMAIN TETROMINOES = {"I", "O", "T", "S", "Z", "J", "L"}
  /\ Len(TETROMINO_TYPES) = 7
  /\ Range(TETROMINO_TYPES) = DOMAIN TETROMINOES
  /\ \A type \in DOMAIN TETROMINOES :
       /\ Len(TETROMINOES[type]) = StateCounts[type]
       /\ \A r \in 1..Len(TETROMINOES[type]) :
            WellFormedState(TETROMINOES[type][r])
       /\ \A r \in 1..Len(TETROMINOES[type]) :
            \A q \in 1..Len(TETROMINOES[type]) :
              r # q => Range(TETROMINOES[type][r]) # Range(TETROMINOES[type][q])
  /\ \A k \in 1..Len(grid.placedPieces) :
       LET piece == grid.placedPieces[k]
       IN  /\ piece.rotationIndex \in 0..(StateCounts[piece.type] - 1)
           /\ CellSet(piece) =
                {<<piece.anchor[1] + cell[1], piece.anchor[2] + cell[2]>> :
                   cell \in Range(Rotation(piece.type, piece.rotationIndex))}
           /\ Cardinality(CellSet(piece)) = 4

\* a digit tiled with pieces of all seven types, a fourth rotation state
\* among them
C26_Witness ==
  /\ pc = "tiled" /\ result.success
  /\ {result.pieces[k].type : k \in 1..Len(result.pieces)}
       = DOMAIN TETROMINOES
  /\ \E k \in 1..Len(result.pieces) : result.pieces[k].rotationIndex = 3

\* the pieces placed by the active backtrack invocations before their
\* recursive calls, outermost first
FramePieces == [k \in 1..Len(stack) |-> stack[k].piece]

\* the Grid holds the pieces with these identities, in this order, and its
\* occupied cells are their cells
GridHolds(ids) ==
  /\ [k \in 1..Len(grid.placedPieces) |-> grid.placedPieces[k].id] = ids
  /\ \A cell \in AllCells(grid.rows, grid.cols) :
       CellAt(grid.cells, cell[1], cell[2]) # 0
         <=> \E k \in 1..Len(grid.placedPieces) :
               /\ cell \in CellSet(grid.placedPieces[k])
               /\ CellAt(grid.cells, cell[1], cell[2])
                    = grid.placedPieces[k].id

\* C27: a failed tileGrid result carries no partial tiling: its pieces list
\* is empty and every cell of its grid is empty; for on entry to a backtrack
\* invocation, and again when it returns false, the Grid holds exactly the
\* pieces its callers placed before calling it
C27_NoPartialTiling ==
  /\ (Returned /\ ~result.success) =>
       /\ result.pieces = <<>>
       /\ \A r \in 1..Len(result.grid) : \A c \in 1..Len(result.grid[r]) :
            result.grid[r][c] = 0
  /\ (pc = "solve" /\ ctl \in {"call", "false"}) => GridHolds(FramePieces)

\* a failure after pieces had been placed and taken back
C27_Witness ==
  /\ pc = "tiled" /\ ~result.success
  /\ result.stats.backtracks > 2
  /\ result.pieces = <<>>
  /\ args.rows = 4

\* C28: the attempt budget is the abort condition of the search: once the
\* counted attempts have reached maxAttempts no further placement is
\* attempted or counted, so the attempts of the statistics never exceed
\* maxAttempts
C28_BudgetRespected ==
  /\ (pc = "solve") => state.attempts <= state.maxAttempts
  /\ Returned => result.stats.attempts <= state.maxAttempts

\* the sequence sequencePieces returned came from tryReorderForValidSequence
FallbackReturned == pc = "done" /\ usedFallback /\ seqResult.success

\* a cell of piece upper lies above a cell of piece lower in the same column
LiesAbove(upper, lower) ==
  \E i \in DOMAIN upper.cells, j \in DOMAIN lower.cells :
    /\ upper.cells[i][2] = lower.cells[j][2]
    /\ upper.cells[i][1] < lower.cells[j][1]

\* entry k of seq is available once the k-1 entries before it are emitted:
\* every piece of seq it lies above is among them
AvailableAt(seq, k, n) ==
  \A m \in DOMAIN seq :
    (m # n /\ LiesAbove(seq[n].piece, seq[m].piece)) => m < k

\* C29: in a sequence returned by the fallback ordering, piece A comes before
\* piece B whenever a cell of B lies above a cell of A in the same column
\* (lower pieces before the pieces above them), and of the pieces available
\* at a position the one emitted has the largest maximum row
C29_FallbackBottomFirst ==
  FallbackReturned =>
    LET seq == seqResult.sequence
    IN  /\ \A a, b \in DOMAIN seq :
              (a # b /\ LiesAbove(seq[b].piece, seq[a].piece)) => a < b
        /\ \A k \in DOMAIN seq : \A n \in k..Len(seq) :
              AvailableAt(seq, k, n) =>
                PieceMaxRow(seq[n].piece) <= PieceMaxRow(seq[k].piece)

\* the largest row and the smallest column a piece occupies
MaxOccupiedRow(piece) ==
  CHOOSE r \in {c[1] : c \in CellSet(piece)} :
    \A c \in CellSet(piece) : c[1] <= r
MinOccupiedCol(piece) ==
  CHOOSE m \in {c[2] : c \in CellSet(piece)} :
    \A c \in CellSet(piece) : m <= c[2]

\* the pieces committed before entry k of the sequence
CommittedBefore(k) == {sequence[j].piece : j \in 1..(k - 1)}

\* the pieces the greedy loop could choose from when it committed entry k:
\* the remaining pieces that are supported and have a clear drop path
CandidatesAt(k) ==
  {piece \in Range(result.pieces) \ CommittedBefore(k) :
     /\ IsPieceSupported(piece, UNION {CellSet(q) : q \in CommittedBefore(k)},
                         GridRows(result.grid) - 1)
     /\ CanDropPiece(piece, {q.id : q \in CommittedBefore(k)}, result.grid)}

\* C30: at every step of the greedy loop the committed piece is one of the
\* remaining pieces that are supported and have a clear drop path, none of
\* them has a larger maximum occupied row, and none of those with the same
\* maximum row has a smaller minimum occupied column
C30_GreedyChoice ==
  \A k \in DOMAIN sequence :
    LET piece == sequence[k].piece
    IN  /\ piece \in CandidatesAt(k)
        /\ \A q \in CandidatesAt(k) :
              /\ MaxOccupiedRow(q) <= MaxOccupiedRow(piece)
              /\ MaxOccupiedRow(q) = MaxOccupiedRow(piece)
                   => MinOccupiedCol(piece) <= MinOccupiedCol(q)

\* sequencePieces returned a sequence with a step at which the greedy loop
\* had a candidate higher up and another one at the same maximum row further
\* right than the piece it committed
C30_Witness ==
  /\ pc = "done" /\ seqResult.success /\ ~usedFallback
  /\ \E k \in DOMAIN sequence :
       /\ \E q \in CandidatesAt(k) :
            MaxOccupiedRow(q) < MaxOccupiedRow(sequence[k].piece)
       /\ \E q \in CandidatesAt(k) :
            /\ MaxOccupiedRow(q) = MaxOccupiedRow(sequence[k].piece)
            /\ MinOccupiedCol(sequence[k].piece) < MinOccupiedCol(q)

\* the greedy loop found no qualifying piece and tryReorderForValidSequence
\* returned null (the sorted ids do not cover the pieces)
CycleDetected ==
  /\ pc = "done" /\ usedFallback
  /\ Len(KahnLoop(result.pieces,
                  <<[k \in DOMAIN result.pieces |->
                       DependenciesOf(result.pieces[k], result.grid)],
                    [k \in DOMAIN result.pieces |->
                       Cardinality(DependenciesOf(result.pieces[k],
                                                  result.grid))]>>,
                  SelectSeq(result.pieces,
                    LAMBDA q : DependenciesOf(q, result.grid) = {}),
                  <<>>)) # Len(result.pieces)

\* C31: when the greedy loop stalls and the fallback meets a dependency
\* cycle, sequencePieces returns success = false with an empty sequence and
\* the grid's dimensions, never the pieces committed so far
C31_CycleIsStructuredFailure ==
  CycleDetected =>
    seqResult = [success |-> FALSE, sequence |-> <<>>,
                 rows |-> Len(result.grid),
                 cols |-> IF Len(result.grid) > 0 THEN Len(result.grid[1])
                          ELSE 0]

\* a cycle was met after the greedy loop had committed a piece
C31_Witness ==
  /\ CycleDetected
  /\ sequence # <<>>
  /\ ~seqResult.success /\ seqResult.sequence = <<>> /\ seqResult.rows = 4

\* the height and width of the box around a piece's cells
OccupiedHeight(piece) ==
  Cardinality({c[1] : c \in CellSet(piece)})
OccupiedWidth(piece) ==
  Cardinality({c[2] : c \in CellSet(piece)})

\* Math.floor(x / 2)
FloorHalf(x) == CHOOSE q \in -(DIGIT_ROWS + 4)..(DIGIT_ROWS + 4) :
                  2 * q <= x /\ x < 2 * q + 2

\* the positions of the steps of one action in a step list
StepsOf(steps, action) == {i \in DOMAIN steps : steps[i].action = action}

RECURSIVE ReplayFrom(_, _, _)
\* where the piece is after steps k.. of a step list, being at pos before:
\* a move step changes the column, a drop step the row
ReplayFrom(steps, k, pos) ==
  IF k > Len(steps) THEN pos
  ELSE ReplayFrom(steps, k + 1,
         IF steps[k].action = "move" THEN <<pos[1], steps[k].col>>
         ELSE IF steps[k].action = "drop" THEN <<steps[k].row, pos[2]>>
         ELSE pos)

\* the statement of C32 for one sequenced piece in a grid gridCols wide
StepsReachAnchor(entry, gridCols) ==
  LET steps == entry.steps
      piece == entry.piece
      spawnRow == -OccupiedHeight(piece)
      spawnCol == FloorHalf(gridCols - OccupiedWidth(piece))
      moves == StepsOf(steps, "move")
      drops == StepsOf(steps, "drop")
      distance == IF piece.anchor[2] >= spawnCol
                  THEN piece.anchor[2] - spawnCol
                  ELSE spawnCol - piece.anchor[2]
  IN  /\ steps[1] = [action |-> "spawn", row |-> spawnRow, col |-> spawnCol]
      /\ Cardinality(moves) = distance
      /\ \A i \in moves :
            LET k == Cardinality({j \in moves : j <= i})
            IN  IF piece.anchor[2] > spawnCol
                THEN steps[i].direction = "right" /\ steps[i].col = spawnCol + k
                ELSE steps[i].direction = "left" /\ steps[i].col = spawnCol - k
      /\ Cardinality(drops) = piece.anchor[1] - spawnRow
      /\ ReplayFrom(steps, 2, <<spawnRow, spawnCol>>) = piece.anchor
      /\ steps[Len(steps)] = [action |-> "lock", row |-> piece.anchor[1],
                               col |-> piece.anchor[2]]

\* C32: every sequenced piece spawns at row -(height) and column
\* floor((gridCols - width) / 2), has |anchor column - spawn column| move
\* steps in one direction whose k-th carries the spawn column +k or -k, and
\* anchor row - spawn row drop steps, so that replaying the steps from the
\* spawn position ends at the anchor, where the lock step is
C32_StepsReachAnchor ==
  /\ \A k \in DOMAIN sequence :
        StepsReachAnchor(sequence[k], GridCols(result.grid))
  /\ \A k \in DOMAIN seqResult.sequence :
        StepsReachAnchor(seqResult.sequence[k], seqResult.cols)

\* a returned sequence with a piece moved two columns to the left, a piece
\* moved to the right, and a piece whose centring rounds down
C32_Witness ==
  /\ pc = "done" /\ seqResult.success
  /\ \E e \in Range(seqResult.sequence) :
       /\ Cardinality(StepsOf(e.steps, "move")) >= 2
       /\ \A i \in StepsOf(e.steps, "move") : e.steps[i].direction = "left"
  /\ \E e \in Range(seqResult.sequence) :
       \E i \in StepsOf(e.steps, "move") : e.steps[i].direction = "right"
  /\ \E e \in Range(seqResult.sequence) :
       (seqResult.cols - OccupiedWidth(e.piece)) % 2 = 1

\* the column ranges of the seven regions of a unified grid with the given
\* gap widths, as <<first column, width, is a gap>>
RegionsOf(dg, cg) ==
  << <<0, 6, FALSE>>, <<6, dg, TRUE>>, <<6 + dg, 6, FALSE>>,
     <<12 + dg, cg, TRUE>>, <<12 + dg + cg, 6, FALSE>>,
     <<18 + dg + cg, dg, TRUE>>, <<18 + 2 * dg + cg, 6, FALSE>> >>

\* tileTimeGrid returned a successful result
TimeGridTiled ==
  pc = "returned" /\ timeCall.entry = "tileTimeGrid" /\ timeResult.success

\* C33: in a successful tileTimeGrid result every piece lies inside the
\* columns of one region, its cells have one value in the mask buildTimeMask
\* builds for the same hours, minutes and gap widths, its isLit is that value
\* (a piece of a gap region is unlit), and its cells are its anchor plus the
\* offsets of its rotation
C33_AgreesWithTimeMask ==
  TimeGridTiled =>
    LET dg == DigitGapColsOf(timeCall)
        cg == ColonGapColsOf(timeCall)
        mask == BuildTimeMask(timeCall.hours, timeCall.minutes, dg, cg)
        regions == RegionsOf(dg, cg)
    IN  \A k \in DOMAIN timeResult.pieces :
          LET piece == timeResult.pieces[k]
              offsets == TETROMINOES[piece.type][piece.rotationIndex + 1]
          IN  /\ \E n \in 1..7 :
                   /\ \A c \in CellSet(piece) :
                        /\ regions[n][1] <= c[2]
                        /\ c[2] < regions[n][1] + regions[n][2]
                   /\ regions[n][3] => ~piece.isLit
              /\ \A c \in CellSet(piece) :
                   mask[c[1] + 1][c[2] + 1] = piece.isLit
              /\ Len(piece.cells) = 4
              /\ \A i \in 1..4 :
                   piece.cells[i] = <<piece.anchor[1] + offsets[i][1],
                                      piece.anchor[2] + offsets[i][2]>>

\* a tiling of 12:34 with the default gaps which has a lit piece right of
\* the colon gap and an unlit piece inside a gap
C33_Witness ==
  /\ TimeGridTiled
  /\ timeCall.hours = JsInt(12) /\ timeCall.minutes = JsInt(34)
  /\ timeCall.digitGapCols = {} /\ timeCall.colonGapCols = {}
  /\ \E k \in DOMAIN timeResult.pieces :
       /\ timeResult.pieces[k].isLit
       /\ timeResult.pieces[k].anchor[2] >= 18
  /\ \E k \in DOMAIN timeResult.pieces :
       /\ ~timeResult.pieces[k].isLit
       /\ \A c \in CellSet(timeResult.pieces[k]) : c[2] \in {6, 7}

\* the number of rotation states the claim lists for each type
ListedRotations == [I |-> 2, O |-> 1, T |-> 4, S |-> 2, Z |-> 2, J |-> 4, L |-> 4]

\* the (type, rotation index) combinations of the listed rotation counts
ListedCombinations ==
  UNION {{[tetrominoType |-> type, rotationIndex |-> r] :
            r \in 0..(ListedRotations[type] - 1)} :
           type \in DOMAIN ListedRotations}

\* the list an invocation of backtrack iterates over has n entries, no two
\* the same, and they are the listed combinations
TriesAll(frame, n) ==
  /\ Len(frame.shuffledPlacements) = n
  /\ \A i, j \in DOMAIN frame.shuffledPlacements :
        i # j => frame.shuffledPlacements[i] # frame.shuffledPlacements[j]
  /\ Range(frame.shuffledPlacements) = ListedCombinations

\* C34 as stated: the list of (type, rotation index) combinations has 28
\* entries (I x2, O x1, T x4, S x2, Z x2, J x4, L x4) and every recursive
\* call tries a shuffled copy of all of them
C34_TwentyEightCombinations ==
  \A k \in DOMAIN stack : TriesAll(stack[k], 28)

\* C34: the list of (type, rotation index) combinations has 19 entries
\* (I x2, O x1, T x4, S x2, Z x2, J x4, L x4) and every invocation of
\* backtrack that gets past its full-grid and budget tests iterates over a
\* shuffled copy of all of them
C34_NineteenCombinations ==
  \A k \in DOMAIN stack : TriesAll(stack[k], 19)

\* two invocations are active which iterate over the list in different
\* orders
C34_Witness ==
  /\ pc = "solve" /\ Len(stack) >= 2
  /\ TriesAll(stack[1], 19) /\ TriesAll(stack[2], 19)
  /\ stack[1].shuffledPlacements # stack[2].shuffledPlacements


\* the display cycles in flight that have not been cancelled
Uncancelled ==
  {k \in 1..Len(clock.cycles) :
     ~IsCancelled(clock.cycles[k].token, clock.animationToken)}

\* C35: whatever the order of timer ticks, settings changes and animation
\* frames, at most one display cycle that has not been cancelled is in
\* flight, and isAnimating is true exactly while there is one
C35_Serialized ==
  /\ Cardinality(Uncancelled) <= 1
  /\ clock.isAnimating <=> Uncancelled # {}

\* a cancelled cycle and its successor are in flight together, and the
\* timer's call of updateTime is about to find isAnimating set
C35_Witness ==
  /\ Len(clock.cycles) = 2
  /\ Cardinality(Uncancelled) = 1
  /\ clock.isAnimating
  /\ clock.call = "tick"


\* the handler of a settings change made during an animation has returned
ChangedWhileAnimating ==
  /\ clock.last.event \in {"setMode", "changeSpeed"}
  /\ clock.last.animating
  /\ clock.call = "none"

\* C36: once the handler of a mode or speed change made during an animation
\* has returned, the animation that was running is cancelled and the cycle
\* started last was started by that handler with the new mode and speed
C36_ChangeRestarts ==
  ChangedWhileAnimating =>
    /\ clock.animationToken > clock.last.token
    /\ clock.started # <<>>
    /\ LET new == clock.started[Len(clock.started)]
       IN  /\ new.by = clock.last.event
           /\ new.token = clock.animationToken
           /\ new.mode = clock.mode
           /\ new.speed = clock.speed


\* C37: a display cycle whose tiling or sequencing failed (a result with
\* success false, or a raised error) leaves isAnimating false, and the
\* updateTime its finally block calls does not start a cycle: none is
\* started after it before the next tick of the timer, in either mode
C37_NoRetryBeforeTick ==
  /\ \A j \in 2..Len(clock.started) :
       clock.started[j - 1].outcome # "ok" =>
         clock.started[j].by # "finally"
  /\ (/\ clock.started # <<>>
      /\ clock.started[Len(clock.started)].outcome # "ok") =>
       ~clock.isAnimating


\* the display cycles in flight that were cancelled
Cancelled ==
  {k \in 1..Len(clock.cycles) :
     clock.cycles[k].token # clock.animationToken}

\* C38: no write to a cell, to the colon, to lockedCells or to isAnimating,
\* and no follow-up call of updateTime, was ever made by a cycle whose
\* token was no longer the current one; and a cancelled cycle ends at the
\* animation frame that follows its cancellation: a cycle started after it
\* is cancelled too or has not yet seen a frame
C38_CancelledNeverWrites ==
  /\ clock.stale = {}
  /\ \A k \in Cancelled :
       \A j \in (k + 1)..Len(clock.cycles) :
         \/ clock.cycles[j].token # clock.animationToken
         \/ (clock.cycles[j].at = "frame" /\ clock.cycles[j].piece = 1)

\* a cycle was cancelled while it waited between the two writes of a flash
\* (no throwIfCancelled stands between that wait and the write after it),
\* the page was cleared, and the cycle that replaced it has painted its
\* first piece
C38_Witness ==
  /\ \E k \in Cancelled : clock.cycles[k].at = "white"
  /\ Uncancelled # {}
  /\ clock.display = {1}
  /\ clock.lockedCells = {}


\* C39: in a Grid that is used between tileGrid calls and placements on
\* other Grids, the registered pieces have pairwise distinct identities and
\* place returns an identity that no piece registered in that Grid held
C39_FreshIdentity ==
  /\ \A i, j \in 1..Len(grid.placedPieces) :
       i # j => grid.placedPieces[i].id # grid.placedPieces[j].id
  /\ (lastOp.op = "place" /\ ~lastOp.threw) =>
       ~HasPiece(before.grid, lastOp.placed)


\* the search placed a piece in this step
SearchPlaces ==
  /\ pc = "solve" /\ pc' = "solve"
  /\ Len(grid'.placedPieces) = Len(grid.placedPieces) + 1

\* the piece placed in this step lay inside the grid, on cells that were
\* empty and have one mask value: canPlace held for it
PlacedWhereItFits ==
  LET piece == grid'.placedPieces[Len(grid'.placedPieces)]
  IN  \A k \in 1..Len(piece.cells) :
        LET cell == piece.cells[k]
        IN  /\ cell[1] \in 0..(grid.rows - 1)
            /\ cell[2] \in 0..(grid.cols - 1)
            /\ CellAt(grid.cells, cell[1], cell[2]) = 0
            /\ CellAt(grid.mask, cell[1], cell[2])
                 = CellAt(grid.mask, piece.cells[1][1], piece.cells[1][2])

\* the piece backtrack is about to remove is registered in the grid
RemovesRegistered ==
  (pc = "solve" /\ ctl = "false" /\ stack # <<>>) =>
    HasPiece(grid, Top.piece)

\* an iteration of the greedy loop commits one remaining piece or returns
CommitsOrReturns ==
  (pc = "seq" /\ remainingPieces # <<>>)
    => \/ pc' = "done"
       \/ /\ Len(remainingPieces') = Len(remainingPieces) - 1
          /\ Len(sequence') = Len(sequence) + 1
          /\ pc' = "seq"

\* C40: a tileGrid call that was made returns a TileResult, and the
\* sequencePieces call on it returns; on the way the search places a piece
\* only where canPlace holds and removes only registered pieces, and every
\* greedy iteration commits one remaining piece or returns
C40_Terminates ==
  /\ []CallCanStep
  /\ [](pc = "solve" => <>(pc = "tiled"))
  /\ [](pc = "seq" => <>(pc = "done"))
  /\ []RemovesRegistered
  /\ [][SearchPlaces => PlacedWhereItFits]_vars
  /\ [][CommitsOrReturns]_vars

\* a search that placed pieces, removed some again and tiled the grid has
\* returned, and so has the greedy loop that sequenced its pieces
C40_Witness ==
  /\ pc = "done"
  /\ result.success /\ result.stats.backtracks > 0
  /\ seqResult.success /\ Len(seqResult.sequence) >= 2
  /\ ~usedFallback

====
